---- MODULE Spec2Model ----
(***************************************************************************)
(* Crane runway beam design (CraneRunwayProV6.py): the crane geometry      *)
(* model, the moving-load envelope engine, the section property model, the *)
(* strength, fatigue, stiffener and weld checks, and the RUN DESIGN gate   *)
(* of the Streamlit script.                                                *)
(*                                                                         *)
(* Numbers.  The program computes in Python floats.  Here every quantity   *)
(* is a rational, a pair <<n, d>> with d > 0 in lowest terms, so that two  *)
(* equal quantities are equal values.  Sums, products and quotients are    *)
(* exact; square and cube roots and powers are rounded to a stated number  *)
(* of decimals, and the lateral-torsional formulas are evaluated in a      *)
(* decimal floating point of four digits.  The rounding of the binary      *)
(* floats themselves is not modelled.                                      *)
(* A Python float division by zero raises ZeroDivisionError: each division *)
(* whose divisor can be zero is guarded where it is used and the raise is  *)
(* an outcome of the operation.                                            *)
(***************************************************************************)
EXTENDS Integers, Sequences, FiniteSets, TLC

VARIABLES
    \* run_moving_load_analysis: arguments
    beam_span, cranes, step_size, num_cranes_on_beam,
    \* run_moving_load_analysis: position in the function and its locals
    pc, rel_positions, wheel_loads, start_pos, end_pos, current_pos,
    all_results, results, exc,
    \* the Section under design, the Section before the last operation on it, the
    \* operations applied to it so far and the exception one of them raised
    sec, sec_prev, sec_ops, sec_exc,
    \* one design check: its arguments, its name once called, the dictionary it
    \* returned and the exception it raised
    chk_in, chk_name, chk_out, chk_exc,
    \* the Streamlit session: st.session_state, and of the last rerun of the script
    \* the value of the RUN DESIGN button, the widget values, the functions it
    \* executed and the analysis results; the number of reruns so far
    ui_session, ui_run_design, ui_widgets, ui_executed, ui_results, ui_reruns

envVars == <<beam_span, cranes, step_size, num_cranes_on_beam, pc, rel_positions,
             wheel_loads, start_pos, end_pos, current_pos, all_results, results, exc>>

secVars == <<sec, sec_prev, sec_ops, sec_exc>>

chkVars == <<chk_in, chk_name, chk_out, chk_exc>>

uiVars == <<ui_session, ui_run_design, ui_widgets, ui_executed, ui_results, ui_reruns>>

vars == <<envVars, secVars, chkVars, uiVars>>

---------------------------------------------------------------------------
(* Exact rational arithmetic standing for Python float arithmetic.         *)

Abs(x) == IF x < 0 THEN -x ELSE x

RECURSIVE GCD(_, _)
GCD(a, b) == IF b = 0 THEN a ELSE GCD(b, a % b)

\* n/d in lowest terms with a positive denominator (d # 0)
Rat(n, d) ==
    LET g == GCD(Abs(n), Abs(d))
        s == IF d < 0 THEN -1 ELSE 1
    IN  <<(s * n) \div g, (s * d) \div g>>

R(n) == <<n, 1>>
Zero == R(0)
One == R(1)

RAdd(a, b) ==
    LET g == GCD(a[2], b[2])
    IN  Rat(a[1] * (b[2] \div g) + b[1] * (a[2] \div g), (a[2] \div g) * b[2])

RNeg(a) == <<-a[1], a[2]>>
RSub(a, b) == RAdd(a, RNeg(b))

RMul(a, b) ==
    LET g1 == GCD(Abs(a[1]), b[2])
        g2 == GCD(Abs(b[1]), a[2])
    IN  Rat((a[1] \div g1) * (b[1] \div g2), (a[2] \div g2) * (b[2] \div g1))

\* a / b, for b # 0 (the callers guard the zero divisor)
RDiv(a, b) == RMul(a, Rat(b[2], b[1]))

\* a < b, decided on the integer parts and then on the reciprocals of the
\* fractional parts, so that no product is formed
RECURSIVE RLt(_, _)
RLt(a, b) ==
    LET qa == a[1] \div a[2]
        qb == b[1] \div b[2]
        ra == a[1] % a[2]
        rb == b[1] % b[2]
    IN  IF qa # qb THEN qa < qb
        ELSE IF rb = 0 THEN FALSE
        ELSE IF ra = 0 THEN TRUE
        ELSE RLt(<<b[2], rb>>, <<a[2], ra>>)

RLe(a, b) == ~RLt(b, a)
RMax(a, b) == IF RLt(a, b) THEN b ELSE a      \* Python max(a, b): a unless b > a
RMin(a, b) == IF RLt(b, a) THEN b ELSE a      \* Python min(a, b): a unless b < a

RECURSIVE RSum(_)
RSum(s) == IF s = <<>> THEN Zero ELSE RAdd(RSum(SubSeq(s, 1, Len(s) - 1)), s[Len(s)])

\* the last index holding the largest value, as a scan updating on >= finds it
ArgMax_LastOccurrence(s) ==
    CHOOSE i \in 1..Len(s) :
        /\ \A j \in 1..Len(s) : RLe(s[j], s[i])
        /\ \A j \in (i + 1)..Len(s) : RLt(s[j], s[i])

\* the largest k in lo..hi with k * k <= n, for lo * lo <= n
RECURSIVE ISqrtIn(_, _, _)
ISqrtIn(n, lo, hi) ==
    IF lo >= hi THEN lo
    ELSE LET mid == (lo + hi + 1) \div 2
         IN  IF mid * mid <= n THEN ISqrtIn(n, mid, hi) ELSE ISqrtIn(n, lo, mid - 1)

\* the integer square root of n in 0..2^31 - 1
ISqrt(n) == ISqrtIn(n, 0, 46340)

\* math.sqrt(q), q >= 0, rounded down to 2, 1 or 0 decimals, the most that keeps
\* the intermediate integer below 2^31: the float rounding of math.sqrt at a
\* shorter mantissa.  Exact when q is the square of such a decimal.
RSqrt(q) ==
    LET S == IF q[1] <= 214748 THEN 100
             ELSE IF q[1] <= 21474836 THEN 10
             ELSE 1
    IN  Rat(ISqrt((q[1] * S * S) \div q[2]), S)

\* np.argmax / max(range(n), key=...): the first index holding the largest value
ArgMax(s) ==
    CHOOSE i \in 1..Len(s) :
        /\ \A j \in 1..Len(s) : RLe(s[j], s[i])
        /\ \A j \in 1..(i - 1) : RLt(s[j], s[i])

\* max written where min is meant
ArgMin_AsMax(s) == ArgMax(s)

\* min(range(n), key=...): the first index holding the smallest value
ArgMin(s) ==
    CHOOSE i \in 1..Len(s) :
        /\ \A j \in 1..Len(s) : RLe(s[i], s[j])
        /\ \A j \in 1..(i - 1) : RLt(s[i], s[j])

---------------------------------------------------------------------------
(* Crane geometry model: class CraneData.                                  *)

GRAVITY == Rat(981, 100)

\* CraneData(): the dataclass defaults
DefaultCrane ==
    [capacity_tonnes |-> R(10), bridge_weight |-> R(5), trolley_weight |-> Rat(72, 100),
     bridge_span |-> R(15), min_hook_approach |-> R(1), wheel_base |-> Rat(22, 10),
     buffer_left |-> Rat(29, 100), buffer_right |-> Rat(29, 100), num_wheels |-> 2,
     impact_v |-> Rat(25, 100), impact_h |-> Rat(20, 100), impact_l |-> Rat(10, 100),
     wheel_spacing_12 |-> Zero, wheel_spacing_23 |-> Zero, wheel_spacing_34 |-> Zero,
     use_direct_input |-> FALSE, direct_max_wheel_load |-> Zero,
     direct_min_wheel_load |-> Zero, direct_lateral_load |-> Zero]

\* [i * spacing for i in range(n)]
EvenPositions(n, spacing) == [i \in 1..n |-> RMul(R(i - 1), spacing)]

\* the positions with the explicit spacings of a four-wheel crane taken whether
\* or not they are positive
get_wheel_positions_relative_AlwaysExplicit(c) ==
    IF c.num_wheels = 2 THEN <<Zero, c.wheel_base>>
    ELSE IF c.num_wheels = 4 THEN
        <<Zero,
          c.wheel_spacing_12,
          RAdd(c.wheel_spacing_12, c.wheel_spacing_23),
          RAdd(RAdd(c.wheel_spacing_12, c.wheel_spacing_23), c.wheel_spacing_34)>>
    ELSE IF c.num_wheels <= 1 THEN <<Zero>>
    ELSE EvenPositions(c.num_wheels, RDiv(c.wheel_base, R(c.num_wheels - 1)))

get_wheel_positions_relative(c) ==
    IF c.num_wheels = 2 THEN <<Zero, c.wheel_base>>
    ELSE IF c.num_wheels = 4 THEN
        IF /\ RLt(Zero, c.wheel_spacing_12)
           /\ RLt(Zero, c.wheel_spacing_23)
           /\ RLt(Zero, c.wheel_spacing_34)
        THEN <<Zero,
               c.wheel_spacing_12,
               RAdd(c.wheel_spacing_12, c.wheel_spacing_23),
               RAdd(RAdd(c.wheel_spacing_12, c.wheel_spacing_23), c.wheel_spacing_34)>>
        ELSE LET spacing == RDiv(c.wheel_base, R(3))
             IN  <<Zero, spacing, RMul(R(2), spacing), c.wheel_base>>
    ELSE IF c.num_wheels <= 1 THEN <<Zero>>
    ELSE EvenPositions(c.num_wheels, RDiv(c.wheel_base, R(c.num_wheels - 1)))

get_total_wheel_base(c) ==
    LET positions == get_wheel_positions_relative(c)
    IN  IF Len(positions) > 1 THEN RSub(positions[Len(positions)], positions[1]) ELSE Zero

\* calc_wheel_loads takes the direct-input return
DirectLoads(c) == c.use_direct_input /\ RLt(Zero, c.direct_max_wheel_load)

\* calc_wheel_loads divides by bridge_span and by num_wheels
calc_wheel_loads_raises(c) ==
    ~DirectLoads(c) /\ (c.bridge_span = Zero \/ c.num_wheels = 0)

\* calc_wheel_loads: <<maximum wheel load, minimum wheel load>>
calc_wheel_loads(c) ==
    IF DirectLoads(c)
    THEN <<c.direct_max_wheel_load,
           IF c.direct_min_wheel_load # Zero THEN c.direct_min_wheel_load
           ELSE RMul(c.direct_max_wheel_load, Rat(2, 10))>>
    ELSE LET Lb == c.bridge_span
             e_min == c.min_hook_approach
             P_lift == RMul(c.capacity_tonnes, GRAVITY)
             P_trolley == RMul(c.trolley_weight, GRAVITY)
             P_bridge == RMul(c.bridge_weight, GRAVITY)
             R_bridge_each == RDiv(P_bridge, R(2))
             P_moving == RAdd(P_lift, P_trolley)
             R_max == RAdd(R_bridge_each, RDiv(RMul(P_moving, RSub(Lb, e_min)), Lb))
             R_min == RAdd(R_bridge_each, RDiv(RMul(P_moving, e_min), Lb))
         IN  <<RDiv(R_max, R(c.num_wheels)), RDiv(R_min, R(c.num_wheels))>>

\* the wheel load without the impact allowance
get_wheel_load_with_impact_Static(c) == calc_wheel_loads(c)[1]

\* max_wl * (1 + impact_v)
get_wheel_load_with_impact(c) ==
    RMul(calc_wheel_loads(c)[1], RAdd(One, c.impact_v))

\* H_total / (2 * self.num_wheels) divides by a zero wheel count
get_lateral_load_per_wheel_raises(c) ==
    ~(c.use_direct_input /\ RLt(Zero, c.direct_lateral_load)) /\ c.num_wheels = 0

\* the direct lateral load, or impact_h * (P_lift + P_trolley) / (2 * num_wheels)
get_lateral_load_per_wheel(c) ==
    IF c.use_direct_input /\ RLt(Zero, c.direct_lateral_load)
    THEN c.direct_lateral_load
    ELSE RDiv(RMul(c.impact_h, RAdd(RMul(c.capacity_tonnes, GRAVITY),
                                    RMul(c.trolley_weight, GRAVITY))),
              R(2 * c.num_wheels))

\* impact_l * max_wl * num_wheels, max_wl from calc_wheel_loads
get_longitudinal_force(c) ==
    RMul(RMul(c.impact_l, calc_wheel_loads(c)[1]), R(c.num_wheels))

---------------------------------------------------------------------------
(* Moving-load envelope engine.                                            *)

\* rel_positions.append(current_pos + w_pos) for every wheel of one crane
ShiftAll(positions, current) == [k \in 1..Len(positions) |-> RAdd(current, positions[k])]

\* wheel_loads.append(Pv) for every wheel of one crane
Repeat(n, v) == [k \in 1..n |-> v]

\* gap = crane.buffer_right + cranes[i + 1].buffer_left, with the own left buffer
\* taken for the next crane's
MinimumGap_OwnBuffer(crane, next_crane) == RAdd(crane.buffer_right, crane.buffer_left)

\* gap = crane.buffer_right + cranes[i + 1].buffer_left
MinimumGap(crane, next_crane) == RAdd(crane.buffer_right, next_crane.buffer_left)

\* The loop of get_crane_group_geometry over cranes[1..n]:
\* <<rel_positions, wheel_loads, current_pos>> after n cranes.
RECURSIVE GroupLoop(_, _)
GroupLoop(cs, n) ==
    IF n = 0 THEN <<<<>>, <<>>, Zero>>
    ELSE LET prev == GroupLoop(cs, n - 1)
             crane == cs[n]
             Pv == get_wheel_load_with_impact(crane)
             crane_wheel_positions == get_wheel_positions_relative(crane)
             next_pos == IF n < Len(cs)
                         THEN RAdd(prev[3], RAdd(get_total_wheel_base(crane),
                                                 MinimumGap(crane, cs[n + 1])))
                         ELSE prev[3]
         IN  <<prev[1] \o ShiftAll(crane_wheel_positions, prev[3]),
               prev[2] \o Repeat(Len(crane_wheel_positions), Pv),
               next_pos>>

get_crane_group_geometry_raises(cs) ==
    \E i \in 1..Len(cs) : calc_wheel_loads_raises(cs[i])

\* get_crane_group_geometry: <<rel_positions, wheel_loads, total_length>>
get_crane_group_geometry(cs) ==
    LET g == GroupLoop(cs, Len(cs))
        rp == g[1]
    IN  <<rp, g[2], IF rp # <<>> THEN RSub(rp[Len(rp)], rp[1]) ELSE Zero>>

\* the moment with every wheel subtracted, the test x_j < x left out
MomentAt_EveryWheel(x, R_A, abs_positions, loads) ==
    RSub(RMul(R_A, x),
         RSum([j \in 1..Len(abs_positions) |->
                  RMul(loads[j], RSub(x, abs_positions[j]))]))

\* M = R_A * x - sum of P_j * (x - x_j) over the wheels with x_j < x
MomentAt(x, R_A, abs_positions, loads) ==
    LET Term(j) == IF RLt(abs_positions[j], x)
                   THEN RMul(loads[j], RSub(x, abs_positions[j])) ELSE Zero
    IN  RSub(RMul(R_A, x), RSum([j \in 1..Len(abs_positions) |-> Term(j)]))

\* analyze_single_position divides by L
analyze_single_position_raises(L, positions) == L = Zero /\ positions # <<>>

\* the ordinate of the other support, x / L, taken for R_A
ReactionA_OrdinateOfB(L, abs_positions, loads) ==
    RSum([k \in 1..Len(abs_positions) |->
             RDiv(RMul(loads[k], abs_positions[k]), L)])

\* R_A = sum(P * (L - x) / L ...), for L # 0
ReactionA(L, abs_positions, loads) ==
    RSum([k \in 1..Len(abs_positions) |->
             RDiv(RMul(loads[k], RSub(L, abs_positions[k])), L)])

\* R_B with the influence ordinate of R_A, (L - x) / L, copied into it
ReactionB_OrdinateOfA(L, abs_positions, loads) ==
    RSum([k \in 1..Len(abs_positions) |->
             RDiv(RMul(loads[k], RSub(L, abs_positions[k])), L)])

\* R_B = sum(P * x / L ...), for L # 0
ReactionB(L, abs_positions, loads) ==
    RSum([k \in 1..Len(abs_positions) |-> RDiv(RMul(loads[k], abs_positions[k]), L)])

\* analyze_single_position, for L # 0: the LoadCaseResult
analyze_single_position(L, first_wheel_pos, positions, loads) ==
    LET n == Len(positions)
        abs_positions == [k \in 1..n |-> RAdd(first_wheel_pos, positions[k])]
        R_A == ReactionA(L, abs_positions, loads)
        R_B == ReactionB(L, abs_positions, loads)
        moments_at_wheels ==
            [k \in 1..n |-> MomentAt(abs_positions[k], R_A, abs_positions, loads)]
        x_mid == RDiv(L, R(2))
        M_mid == MomentAt(x_mid, R_A, abs_positions, loads)
        all_moments == Append(moments_at_wheels, M_mid)
        all_locations == Append(abs_positions, x_mid)
        max_idx == ArgMax(all_moments)
    IN  [step_position |-> first_wheel_pos,
         wheel_positions |-> abs_positions,
         wheel_loads |-> loads,
         R_A |-> R_A,
         R_B |-> R_B,
         M_max |-> all_moments[max_idx],
         M_max_location |-> all_locations[max_idx],
         V_max |-> RMax(R_A, R_B),
         moments_at_wheels |-> moments_at_wheels]

\* CriticalResults(): the dataclass defaults
DefaultCriticalResults ==
    [M_max |-> Zero, M_max_position |-> Zero, M_max_location |-> Zero,
     M_max_R_A |-> Zero, M_max_R_B |-> Zero, M_max_wheel_positions |-> <<>>,
     R_A_max |-> Zero, R_A_max_position |-> Zero, R_A_max_wheel_positions |-> <<>>,
     R_A_max_moment |-> Zero, R_A_max_R_B |-> Zero,
     R_B_max |-> Zero, R_B_max_position |-> Zero, R_B_max_wheel_positions |-> <<>>,
     R_B_max_moment |-> Zero, R_B_max_R_A |-> Zero,
     R_A_min |-> Zero, R_B_min |-> Zero, V_max |-> Zero, all_results |-> <<>>]

Field_M_max(rs) == [i \in 1..Len(rs) |-> rs[i].M_max]
Field_R_A(rs) == [i \in 1..Len(rs) |-> rs[i].R_A]
Field_R_B(rs) == [i \in 1..Len(rs) |-> rs[i].R_B]

\* "Extract critical values": the body of `if all_results:`
ExtractCritical(rs) ==
    LET idx_M == ArgMax(Field_M_max(rs))
        idx_RA == ArgMax(Field_R_A(rs))
        idx_RB == ArgMax(Field_R_B(rs))
        idx_RA_min == ArgMin(Field_R_A(rs))
        idx_RB_min == ArgMin(Field_R_B(rs))
    IN  [M_max |-> rs[idx_M].M_max,
         M_max_position |-> rs[idx_M].step_position,
         M_max_location |-> rs[idx_M].M_max_location,
         M_max_R_A |-> rs[idx_M].R_A,
         M_max_R_B |-> rs[idx_M].R_B,
         M_max_wheel_positions |-> rs[idx_M].wheel_positions,
         R_A_max |-> rs[idx_RA].R_A,
         R_A_max_position |-> rs[idx_RA].step_position,
         R_A_max_wheel_positions |-> rs[idx_RA].wheel_positions,
         R_A_max_moment |-> rs[idx_RA].M_max,
         R_A_max_R_B |-> rs[idx_RA].R_B,
         R_B_max |-> rs[idx_RB].R_B,
         R_B_max_position |-> rs[idx_RB].step_position,
         R_B_max_wheel_positions |-> rs[idx_RB].wheel_positions,
         R_B_max_moment |-> rs[idx_RB].M_max,
         R_B_max_R_A |-> rs[idx_RB].R_A,
         V_max |-> RMax(rs[idx_RA].R_A, rs[idx_RB].R_B),
         R_A_min |-> rs[idx_RA_min].R_A,
         R_B_min |-> rs[idx_RB_min].R_B,
         all_results |-> rs]

\* cranes[:n + 1]: one crane too many
Slice_OneMore(cs, n) == SubSeq(cs, 1, IF n + 1 < Len(cs) THEN n + 1 ELSE Len(cs))

\* cranes[:n], Python slicing (a negative n counts from the end)
Slice(cs, n) ==
    LET m == IF n >= 0 THEN (IF n < Len(cs) THEN n ELSE Len(cs))
             ELSE (IF Len(cs) + n > 0 THEN Len(cs) + n ELSE 0)
    IN  SubSeq(cs, 1, m)

\* active_cranes = cranes[:num_cranes_on_beam], None meaning len(cranes);
\* the optional argument is <<>> for None and <<n>> for the integer n
ActiveCranes(cs, count) ==
    Slice(cs, IF count = <<>> THEN Len(cs) ELSE count[1])

\* the inclusive bound without its tolerance
LoopCondition_NoTolerance(pos, end) == RLe(pos, end)

\* end_pos left below start_pos: the clamp forgotten
TravelEnd_NoClamp(limit, start) == limit

\* end_pos = L - buffer_right - group_length; if end_pos < start_pos: end_pos = start_pos
TravelEnd(limit, start) == IF RLt(limit, start) THEN start ELSE limit

\* the 0.001 added to the inclusive bound of the stepping loop
SweepTolerance == Rat(1, 1000)

\* while current_pos <= end_pos + 0.001
LoopCondition(pos, end) == RLe(pos, RAdd(end, SweepTolerance))

---------------------------------------------------------------------------
(* Inputs of the envelope analysis.                                        *)

\* the longest crane list given to the analysis
MaxCranes == 2

\* the load cases the list all_results can hold before all_results.append
\* raises MemoryError; it exceeds the length of every sweep of these inputs
\* whose step is positive
MaxResults == 8

\* two wheels, direct wheel load 40 kN, 25 % impact: 50 kN per wheel
CraneTwoWheel ==
    [DefaultCrane EXCEPT !.wheel_base = R(2), !.buffer_left = R(1), !.buffer_right = R(1),
                         !.use_direct_input = TRUE, !.direct_max_wheel_load = R(40)]

\* four wheels at explicit spacings 1, 2, 1; wheel loads from statics
CraneFourExplicit ==
    [DefaultCrane EXCEPT !.num_wheels = 4, !.wheel_base = R(4),
                         !.wheel_spacing_12 = R(1), !.wheel_spacing_23 = R(2),
                         !.wheel_spacing_34 = R(1),
                         !.buffer_left = R(1), !.buffer_right = R(2),
                         !.bridge_weight = R(10), !.trolley_weight = Zero,
                         !.bridge_span = R(10)]

\* four wheels, one spacing missing: the equal-spacing fallback over wheel_base
CraneFourFallback ==
    [DefaultCrane EXCEPT !.num_wheels = 4, !.wheel_base = R(3),
                         !.wheel_spacing_12 = R(1),
                         !.buffer_left = Rat(1, 2), !.buffer_right = R(1),
                         !.use_direct_input = TRUE, !.direct_max_wheel_load = R(30),
                         !.impact_v = Zero]

\* three wheels: the generic equal spacing
CraneThreeWheel ==
    [DefaultCrane EXCEPT !.num_wheels = 3, !.wheel_base = R(2),
                         !.buffer_left = Zero, !.buffer_right = R(1),
                         !.use_direct_input = TRUE, !.direct_max_wheel_load = R(20)]

\* one wheel and no weight at all: every wheel load is 0
CraneWeightless ==
    [DefaultCrane EXCEPT !.num_wheels = 1, !.wheel_base = Zero,
                         !.buffer_left = R(1), !.buffer_right = R(1),
                         !.capacity_tonnes = Zero, !.bridge_weight = Zero,
                         !.trolley_weight = Zero]

CraneCatalog ==
    {CraneTwoWheel, CraneFourExplicit, CraneFourFallback, CraneThreeWheel, CraneWeightless}

CraneLists == UNION {[1..n -> CraneCatalog] : n \in 0..MaxCranes}

Spans == {Zero, R(6), R(8)}

StepSizes == {R(-1), Zero, R(1), Rat(3, 2), Rat(8001, 2000)}

CraneCounts == {<<>>, <<0>>, <<1>>}

---------------------------------------------------------------------------
(* Section property model: class Section.                                  *)

RHO_STEEL == 7850

\* Section(): the dataclass defaults
DefaultSection ==
    [sec_type |-> "hot_rolled", d |-> Zero, bf |-> Zero, tf |-> Zero, tw |-> Zero,
     r |-> Zero, bf_top |-> Zero, tf_top |-> Zero, bf_bot |-> Zero, tf_bot |-> Zero,
     hw |-> Zero, has_cap |-> FALSE, cap_A |-> Zero, cap_Ix |-> Zero, cap_Iy |-> Zero,
     cap_d |-> Zero, cap_cy |-> Zero, A |-> Zero, Ix |-> Zero, Iy |-> Zero, Sx |-> Zero,
     Sy |-> Zero, Zx |-> Zero, rx |-> Zero, ry |-> Zero, rts |-> Zero, J |-> Zero,
     Cw |-> Zero, ho |-> Zero, y_bar |-> Zero, mass |-> Zero]

RSq(a) == RMul(a, a)
RCube(a) == RMul(a, RMul(a, a))

\* `if self.has_cap and self.cap_A > 0`
CapPresent(s) == s.has_cap /\ RLt(Zero, s.cap_A)

\* the flange defaults both derivations set when bf_top is 0
FlangeDefaults(s) ==
    IF s.bf_top = Zero
    THEN [s EXCEPT !.bf_top = s.bf, !.tf_top = s.tf, !.bf_bot = s.bf, !.tf_bot = s.tf]
    ELSE s

\* _calc_common_props, lines 666-668: the radii of gyration
CommonRadii(s) ==
    IF RLt(Zero, s.A)
    THEN [s EXCEPT !.rx = IF RLt(Zero, s.Ix) THEN RSqrt(RDiv(s.Ix, s.A)) ELSE Zero,
                   !.ry = IF RLt(Zero, s.Iy) THEN RSqrt(RDiv(s.Iy, s.A)) ELSE Zero]
    ELSE s

\* lines 670-671
CommonZx(s) ==
    IF s.Zx = Zero /\ RLt(Zero, s.Sx) THEN [s EXCEPT !.Zx = RMul(s.Sx, Rat(112, 100))]
    ELSE s

\* lines 673-674
CommonJ(s) ==
    IF s.J = Zero
    THEN [s EXCEPT !.J = RDiv(RAdd(RMul(R(2), RMul(s.bf, RCube(s.tf))),
                                   RMul(s.hw, RCube(s.tw))), R(3))]
    ELSE s

\* lines 676-677
CommonCw(s) ==
    IF s.Cw = Zero /\ RLt(Zero, s.ho) /\ RLt(Zero, s.Iy)
    THEN [s EXCEPT !.Cw = RDiv(RMul(s.Iy, RSq(s.ho)), R(4))]
    ELSE s

\* lines 679-680
CommonRts(s) ==
    IF s.rts = Zero /\ RLt(Zero, s.Sx) /\ RLt(Zero, s.Iy) /\ RLt(Zero, s.Cw)
    THEN [s EXCEPT !.rts = RSqrt(RDiv(RSqrt(RMul(s.Iy, s.Cw)), s.Sx))]
    ELSE s

\* lines 682-685
CommonMass(s) ==
    IF s.mass = Zero /\ RLt(Zero, s.A)
    THEN [s EXCEPT !.mass =
             IF CapPresent(s)
             THEN RAdd(RDiv(RMul(s.A, R(RHO_STEEL)), R(1000000)),
                       RDiv(RMul(s.cap_A, R(RHO_STEEL)), R(1000000)))
             ELSE RDiv(RMul(s.A, R(RHO_STEEL)), R(1000000))]
    ELSE s

\* _calc_common_props
calc_common_props(s) ==
    CommonMass(CommonRts(CommonCw(CommonJ(CommonZx(CommonRadii(s))))))

\* lines 570-571
BuiltUpWebHeight(s) ==
    IF s.hw = Zero THEN [s EXCEPT !.hw = RSub(RSub(s.d, s.tf_top), s.tf_bot)] ELSE s

\* lines 574-613 on the Section s with its defaults set: the record before
\* `self.Sx = ...` and the divisor max(c_top, c_bot)
BuiltUpFrom(s) ==
    LET A_tf == RMul(s.bf_top, s.tf_top)
        A_bf == RMul(s.bf_bot, s.tf_bot)
        A_w == RMul(s.hw, s.tw)
        A_I == RAdd(RAdd(A_tf, A_bf), A_w)
        y_tf == RAdd(RAdd(s.tf_bot, s.hw), RDiv(s.tf_top, R(2)))
        y_bf == RDiv(s.tf_bot, R(2))
        y_w == RAdd(s.tf_bot, RDiv(s.hw, R(2)))
        y_cap == RAdd(s.d, s.cap_cy)
        moment_I == RAdd(RAdd(RMul(A_tf, y_tf), RMul(A_bf, y_bf)), RMul(A_w, y_w))
        A == IF CapPresent(s) THEN RAdd(A_I, s.cap_A) ELSE A_I
        y_bar == IF CapPresent(s)
                 THEN (IF A = Zero THEN s.y_bar
                       ELSE RDiv(RAdd(moment_I, RMul(s.cap_A, y_cap)), A))
                 ELSE RDiv(moment_I, RMax(A_I, One))
    IN  [sec |-> [s EXCEPT !.A = A, !.y_bar = y_bar], A_tf |-> A_tf, A_bf |-> A_bf,
         A_w |-> A_w, y_tf |-> y_tf, y_bf |-> y_bf, y_w |-> y_w, y_cap |-> y_cap,
         zero_area |-> CapPresent(s) /\ A = Zero]

\* lines 594-613 on the areas and centroids g
BuiltUpInertia(g) ==
    LET s == g.sec
        ho == RSub(s.d, RDiv(RAdd(s.tf_top, s.tf_bot), R(2)))
        I_tf == RAdd(RDiv(RMul(s.bf_top, RCube(s.tf_top)), R(12)),
                     RMul(g.A_tf, RSq(RSub(g.y_tf, s.y_bar))))
        I_bf == RAdd(RDiv(RMul(s.bf_bot, RCube(s.tf_bot)), R(12)),
                     RMul(g.A_bf, RSq(RSub(g.y_bf, s.y_bar))))
        I_w == RAdd(RDiv(RMul(s.tw, RCube(s.hw)), R(12)),
                    RMul(g.A_w, RSq(RSub(g.y_w, s.y_bar))))
        I_cap == RAdd(s.cap_Ix, RMul(s.cap_A, RSq(RSub(g.y_cap, s.y_bar))))
        Iy_I == RDiv(RAdd(RAdd(RMul(s.tf_top, RCube(s.bf_top)),
                               RMul(s.tf_bot, RCube(s.bf_bot))),
                          RMul(s.hw, RCube(s.tw))), R(12))
        c_top == RSub(IF s.has_cap THEN RAdd(s.d, s.cap_d) ELSE s.d, s.y_bar)
        c_bot == s.y_bar
    IN  [sec |-> [s EXCEPT !.ho = ho,
                           !.Ix = IF CapPresent(s)
                                  THEN RAdd(RAdd(RAdd(I_tf, I_bf), I_w), I_cap)
                                  ELSE RAdd(RAdd(I_tf, I_bf), I_w),
                           !.Iy = IF CapPresent(s) THEN RAdd(Iy_I, s.cap_Iy) ELSE Iy_I],
         before |-> s,
         zero_area |-> g.zero_area,
         c_max |-> RMax(c_top, c_bot)]

\* _calc_built_up_props up to the section moduli
BuiltUpGeometry(s0) == BuiltUpInertia(BuiltUpFrom(BuiltUpWebHeight(FlangeDefaults(s0))))

\* _calc_built_up_props divides by self.A and by max(c_top, c_bot)
GeometryRaises(g) == g.zero_area \/ g.c_max = Zero

calc_built_up_props_raises(s0) == GeometryRaises(BuiltUpGeometry(s0))

\* lines 614-622 on the geometry g
BuiltUpBeforeCommon(g) ==
    [g.sec EXCEPT
       !.Sx = RDiv(g.sec.Ix, g.c_max),
       !.Sy = RDiv(g.sec.Iy,
                   RMax(RMax(RDiv(g.sec.bf_top, R(2)), RDiv(g.sec.bf_bot, R(2))),
                        One)),
       !.J = RDiv(RAdd(RAdd(RMul(g.sec.bf_top, RCube(g.sec.tf_top)),
                            RMul(g.sec.bf_bot, RCube(g.sec.tf_bot))),
                       RMul(g.sec.hw, RCube(g.sec.tw))), R(3)),
       !.Cw = IF RLt(Zero, g.sec.ho)
              THEN RDiv(RMul(g.sec.Iy, RSq(g.sec.ho)), R(4))
              ELSE One]

\* line 621: the common step ends _calc_built_up_props
BuiltUpFinish(g) == calc_common_props(BuiltUpBeforeCommon(g))

\* _calc_built_up_props, when it does not raise
calc_built_up_props(s0) == BuiltUpFinish(BuiltUpGeometry(s0))

\* the partly updated Section _calc_built_up_props leaves behind when it raises
BuiltUpPartial(g) ==
    IF g.zero_area THEN g.before ELSE g.sec

\* lines 626-627
HotRolledWebHeight(s) ==
    IF s.hw = Zero THEN [s EXCEPT !.hw = RSub(s.d, RMul(R(2), s.tf))] ELSE s

\* lines 628-629
HotRolledFlangeDistance(s) ==
    IF s.ho = Zero THEN [s EXCEPT !.ho = RSub(s.d, s.tf)] ELSE s

\* _calc_hot_rolled_props up to the cap channel: hw, ho and the flange defaults
HotRolledDefaults(s0) == FlangeDefaults(HotRolledFlangeDistance(HotRolledWebHeight(s0)))

\* lines 640-645: the combined area and centroid
HotRolledCentroid(s) ==
    LET A_I == IF RLt(Zero, s.A) THEN s.A
               ELSE RAdd(RMul(R(2), RMul(s.bf, s.tf)), RMul(s.hw, s.tw))
        y_cap == RAdd(s.d, s.cap_cy)
        total_A == RAdd(A_I, s.cap_A)
    IN  [A_I |-> A_I, y_I |-> RDiv(s.d, R(2)), y_cap |-> y_cap, total_A |-> total_A,
         y_bar |-> IF total_A = Zero THEN s.y_bar
                   ELSE RDiv(RAdd(RMul(A_I, RDiv(s.d, R(2))), RMul(s.cap_A, y_cap)),
                             total_A)]

\* lines 647-659 on the centroid c: the record before `self.Sx = ...` and the
\* divisors total_A and max(c_top, c_bot)
HotRolledInertia(s, c) ==
    LET I_I == IF RLt(Zero, s.Ix) THEN s.Ix
               ELSE RSub(RDiv(RMul(s.bf, RCube(s.d)), R(12)),
                         RDiv(RMul(RSub(s.bf, s.tw), RCube(s.hw)), R(12)))
        I_cap == RAdd(s.cap_Ix, RMul(s.cap_A, RSq(RSub(c.y_cap, c.y_bar))))
        I_I_shifted == RAdd(I_I, RMul(c.A_I, RSq(RSub(c.y_I, c.y_bar))))
        c_top == RSub(RAdd(s.d, s.cap_d), c.y_bar)
        c_bot == c.y_bar
    IN  [sec |-> [s EXCEPT !.y_bar = c.y_bar, !.Ix = RAdd(I_I_shifted, I_cap),
                           !.A = c.total_A,
                           !.Iy = IF RLt(Zero, s.Iy) THEN RAdd(s.Iy, s.cap_Iy) ELSE s.Iy],
         before |-> s,
         zero_area |-> c.total_A = Zero,
         c_max |-> RMax(c_top, c_bot)]

\* the cap channel added to a hot-rolled section
HotRolledCap(s) == HotRolledInertia(s, HotRolledCentroid(s))

\* _calc_hot_rolled_props on the Section s with its defaults set
HotRolledRaisesFrom(s) == CapPresent(s) /\ GeometryRaises(HotRolledCap(s))

\* _calc_hot_rolled_props divides by total_A and by max(c_top, c_bot)
calc_hot_rolled_props_raises(s0) == HotRolledRaisesFrom(HotRolledDefaults(s0))

\* line 660 and the common step on the geometry g
HotRolledCapBeforeCommon(g) == [g.sec EXCEPT !.Sx = RDiv(g.sec.Ix, g.c_max)]

HotRolledCapFinish(g) == calc_common_props(HotRolledCapBeforeCommon(g))

HotRolledFinish(s) ==
    IF CapPresent(s) THEN HotRolledCapFinish(HotRolledCap(s)) ELSE calc_common_props(s)

\* _calc_hot_rolled_props, when it does not raise
calc_hot_rolled_props(s0) == HotRolledFinish(HotRolledDefaults(s0))

\* the partly updated Section _calc_hot_rolled_props leaves behind when it raises
HotRolledPartial(g) == IF g.zero_area THEN g.before ELSE g.sec

\* the Section as it is when _calc_common_props starts, in a calc_props call
\* that does not raise
BeforeCommon(s0) ==
    IF s0.sec_type = "built_up" THEN BuiltUpBeforeCommon(BuiltUpGeometry(s0))
    ELSE IF CapPresent(HotRolledDefaults(s0))
    THEN HotRolledCapBeforeCommon(HotRolledCap(HotRolledDefaults(s0)))
    ELSE HotRolledDefaults(s0)

calc_props_raises(s) ==
    IF s.sec_type = "built_up" THEN calc_built_up_props_raises(s)
    ELSE calc_hot_rolled_props_raises(s)

\* Section.calc_props, when it does not raise
calc_props(s) ==
    IF s.sec_type = "built_up" THEN calc_built_up_props(s) ELSE calc_hot_rolled_props(s)

---------------------------------------------------------------------------
(* Design checks: local buckling class, shear, web local yielding and web  *)
(* crippling.  Dimensions, loads and Fy are non-negative.                  *)

E_STEEL == 200000

OMEGA_SHEAR == Rat(150, 100)
OMEGA_SHEAR_TFA == Rat(167, 100)
OMEGA_WLY == Rat(150, 100)
OMEGA_WCR == Rat(200, 100)

\* x ** 1.5 for x >= 0
RPow15(x) == RMul(x, RSqrt(x))

\* math.sqrt(E_STEEL / Fy)
SqrtEOverFy(Fy) == RSqrt(RDiv(R(E_STEEL), Fy))

SlendernessClass(lambda, lambda_p, lambda_r) ==
    IF RLe(lambda, lambda_p) THEN "Compact"
    ELSE IF RLe(lambda, lambda_r) THEN "Noncompact"
    ELSE "Slender"

\* check_compactness divides by Fy only: tf and tw are tested before the division
check_compactness_raises(s, Fy) == Fy = Zero

check_compactness(s, Fy) ==
    LET bf == IF RLt(Zero, s.bf_top) THEN RMax(s.bf_top, s.bf_bot) ELSE s.bf
        tf == IF RLt(Zero, s.tf_top) THEN RMin(s.tf_top, s.tf_bot) ELSE s.tf
        hw == IF RLt(Zero, s.hw) THEN s.hw ELSE RSub(s.d, RMul(R(2), s.tf))
        lambda_f == IF RLt(Zero, tf) THEN RDiv(bf, RMul(R(2), tf)) ELSE R(999)
        lambda_pf == RMul(Rat(38, 100), SqrtEOverFy(Fy))
        lambda_rf == RMul(One, SqrtEOverFy(Fy))
        flange_class == SlendernessClass(lambda_f, lambda_pf, lambda_rf)
        lambda_w == IF RLt(Zero, s.tw) THEN RDiv(hw, s.tw) ELSE R(999)
        lambda_pw == RMul(Rat(376, 100), SqrtEOverFy(Fy))
        lambda_rw == RMul(Rat(570, 100), SqrtEOverFy(Fy))
        web_class == SlendernessClass(lambda_w, lambda_pw, lambda_rw)
    IN  [lambda_f |-> lambda_f, lambda_pf |-> lambda_pf, lambda_rf |-> lambda_rf,
         flange_class |-> flange_class, lambda_w |-> lambda_w, lambda_pw |-> lambda_pw,
         lambda_rw |-> lambda_rw, web_class |-> web_class,
         compact |-> (flange_class = "Compact" /\ web_class = "Compact")]

\* lines 1055-1063: the web and its buckling coefficient
ShearWeb(s, has_stiff, stiff_spa) ==
    LET hw == IF RLt(Zero, s.hw) THEN s.hw ELSE RSub(s.d, RMul(R(2), s.tf))
    IN  [hw |-> hw, Aw |-> RMul(hw, s.tw),
         h_tw |-> IF RLt(Zero, s.tw) THEN RDiv(hw, s.tw) ELSE R(999),
         kv |-> IF has_stiff /\ RLt(Zero, stiff_spa) /\ RLt(Zero, hw)
                   /\ RLe(RDiv(stiff_spa, hw), R(3))
                THEN RAdd(R(5), RDiv(R(5), RSq(RDiv(stiff_spa, hw))))
                ELSE Rat(534, 100)]

\* lines 1065-1066
ShearLimits(w, Fy) ==
    [hw |-> w.hw, Aw |-> w.Aw, h_tw |-> w.h_tw, kv |-> w.kv,
     limit1 |-> RMul(Rat(110, 100), RSqrt(RDiv(RMul(w.kv, R(E_STEEL)), Fy))),
     limit2 |-> RMul(Rat(137, 100), RSqrt(RDiv(RMul(w.kv, R(E_STEEL)), Fy)))]

\* lines 1068-1076 without the first branch: limit1 / h_tw up to limit2
ShearCv1_NoYieldBranch(m, Fy) ==
    [hw |-> m.hw, Aw |-> m.Aw, h_tw |-> m.h_tw, kv |-> m.kv, limit1 |-> m.limit1,
     Cv1 |-> IF RLe(m.h_tw, m.limit2) THEN RDiv(m.limit1, m.h_tw)
             ELSE RDiv(RMul(RMul(Rat(151, 100), m.kv), R(E_STEEL)),
                       RMul(RSq(m.h_tw), Fy)),
     limit_state |-> IF RLe(m.h_tw, m.limit2) THEN "Inelastic Buckling"
                     ELSE "Elastic Buckling"]

\* lines 1068-1076
ShearCv1(m, Fy) ==
    [hw |-> m.hw, Aw |-> m.Aw, h_tw |-> m.h_tw, kv |-> m.kv, limit1 |-> m.limit1,
     Cv1 |-> IF RLe(m.h_tw, m.limit1) THEN One
             ELSE IF RLe(m.h_tw, m.limit2) THEN RDiv(m.limit1, m.h_tw)
             ELSE RDiv(RMul(RMul(Rat(151, 100), m.kv), R(E_STEEL)),
                       RMul(RSq(m.h_tw), Fy)),
     limit_state |-> IF RLe(m.h_tw, m.limit1) THEN "Shear Yielding"
                     ELSE IF RLe(m.h_tw, m.limit2) THEN "Inelastic Buckling"
                     ELSE "Elastic Buckling"]

\* line 1078
ShearVn(c, Fy) ==
    [hw |-> c.hw, Aw |-> c.Aw, h_tw |-> c.h_tw, kv |-> c.kv, limit1 |-> c.limit1,
     Cv1 |-> c.Cv1, limit_state |-> c.limit_state,
     Vn |-> RDiv(RMul(RMul(RMul(Rat(6, 10), Fy), c.Aw), c.Cv1), R(1000))]

\* the quantities calc_shear_strength has computed when it reaches line 1081
ShearBeforeTFA(s, Fy, has_stiff, stiff_spa) ==
    ShearVn(ShearCv1(ShearLimits(ShearWeb(s, has_stiff, stiff_spa), Fy), Fy), Fy)

\* `use_tfa and has_stiff and stiff_spa > 0 and Cv1 < 1.0`
EntersTFA(b, has_stiff, stiff_spa, use_tfa) ==
    use_tfa /\ has_stiff /\ RLt(Zero, stiff_spa) /\ RLt(b.Cv1, One)

\* calc_shear_strength divides by Fy, and at line 1082 by hw without a test
TFADividesByZero(b, has_stiff, stiff_spa, use_tfa) ==
    EntersTFA(b, has_stiff, stiff_spa, use_tfa) /\ b.hw = Zero

calc_shear_strength_raises(s, Fy, has_stiff, stiff_spa, use_tfa) ==
    \/ Fy = Zero
    \/ TFADividesByZero(ShearBeforeTFA(s, Fy, has_stiff, stiff_spa), has_stiff,
                        stiff_spa, use_tfa)

\* lines 1081-1092 without the test 0.5 <= a_h <= 3
ShearWithTFA_AnyAspect(b, Fy, has_stiff, stiff_spa, use_tfa) ==
    LET a_h == RDiv(stiff_spa, b.hw)
        Cv2 == IF RLt(b.limit1, b.h_tw) THEN RDiv(b.limit1, b.h_tw) ELSE One
        Vn_tfa == RDiv(RMul(RMul(RMul(Rat(6, 10), Fy), b.Aw),
                            RAdd(Cv2, RDiv(RSub(One, Cv2),
                                           RMul(Rat(115, 100),
                                                RSqrt(RAdd(One, RSq(a_h))))))),
                       R(1000))
        tfa == /\ EntersTFA(b, has_stiff, stiff_spa, use_tfa)
               /\ RLt(b.Vn, Vn_tfa)
    IN  [Aw |-> b.Aw, h_tw |-> b.h_tw, kv |-> b.kv, Cv1 |-> b.Cv1,
         Vn |-> IF tfa THEN Vn_tfa ELSE b.Vn,
         Vn_allow |-> IF tfa THEN RDiv(Vn_tfa, OMEGA_SHEAR_TFA)
                      ELSE RDiv(b.Vn, OMEGA_SHEAR),
         limit_state |-> IF tfa THEN "Tension Field Action" ELSE b.limit_state]

\* lines 1081-1092 on the quantities b
ShearWithTFA(b, Fy, has_stiff, stiff_spa, use_tfa) ==
    LET a_h == RDiv(stiff_spa, b.hw)
        Cv2 == IF RLt(b.limit1, b.h_tw) THEN RDiv(b.limit1, b.h_tw) ELSE One
        Vn_tfa == RDiv(RMul(RMul(RMul(Rat(6, 10), Fy), b.Aw),
                            RAdd(Cv2, RDiv(RSub(One, Cv2),
                                           RMul(Rat(115, 100),
                                                RSqrt(RAdd(One, RSq(a_h))))))),
                       R(1000))
        tfa == /\ EntersTFA(b, has_stiff, stiff_spa, use_tfa)
               /\ RLe(Rat(1, 2), a_h) /\ RLe(a_h, R(3))
               /\ RLt(b.Vn, Vn_tfa)
    IN  [Aw |-> b.Aw, h_tw |-> b.h_tw, kv |-> b.kv, Cv1 |-> b.Cv1,
         Vn |-> IF tfa THEN Vn_tfa ELSE b.Vn,
         Vn_allow |-> IF tfa THEN RDiv(Vn_tfa, OMEGA_SHEAR_TFA)
                      ELSE RDiv(b.Vn, OMEGA_SHEAR),
         limit_state |-> IF tfa THEN "Tension Field Action" ELSE b.limit_state]

calc_shear_strength(s, Fy, has_stiff, stiff_spa, use_tfa) ==
    ShearWithTFA(ShearBeforeTFA(s, Fy, has_stiff, stiff_spa), Fy, has_stiff, stiff_spa,
                 use_tfa)

\* 'OK' if ratio <= 1.0 else 'NG'
RatioStatus(ratio) == IF RLe(ratio, One) THEN "OK" ELSE "NG"

\* check_web_local_yielding divides by constants and by a tested Rn_allow only
check_web_local_yielding(s, Fy, R_applied, lb, at_support) ==
    LET k == IF RLt(Zero, s.r) THEN RAdd(s.tf, s.r) ELSE RMul(s.tf, Rat(15, 10))
        Rn == IF at_support
              THEN RDiv(RMul(RMul(Fy, s.tw), RAdd(RMul(Rat(25, 10), k), lb)), R(1000))
              ELSE RDiv(RMul(RMul(Fy, s.tw), RAdd(RMul(R(5), k), lb)), R(1000))
        Rn_allow == RDiv(Rn, OMEGA_WLY)
        ratio == IF RLt(Zero, Rn_allow) THEN RDiv(R_applied, Rn_allow) ELSE R(999)
    IN  [k |-> k, lb |-> lb, Rn |-> Rn, Rn_allow |-> Rn_allow, R_applied |-> R_applied,
         ratio |-> ratio, status |-> RatioStatus(ratio)]

\* the flange thickness check_web_crippling uses
CripplingFlange(s) == IF RLt(Zero, s.tf_top) THEN RMin(s.tf_top, s.tf_bot) ELSE s.tf

\* check_web_crippling divides by sec.d, by tf and by sec.tw, none of them tested
check_web_crippling_raises(s, Fy, R_applied, lb, at_support) ==
    s.d = Zero \/ CripplingFlange(s) = Zero \/ s.tw = Zero

\* the bound lb / sec.d <= 0.2 read as lb / sec.d < 0.2
CripplingFormula_StrictBound(lb_d, at_support) ==
    IF ~at_support THEN "interior"
    ELSE IF RLt(lb_d, Rat(2, 10)) THEN "end, lb/d <= 0.2"
    ELSE "end, lb/d > 0.2"

\* the branch of lines 1115-1124 that computes Rn
CripplingFormula(lb_d, at_support) ==
    IF ~at_support THEN "interior"
    ELSE IF RLe(lb_d, Rat(2, 10)) THEN "end, lb/d <= 0.2"
    ELSE "end, lb/d > 0.2"

\* Rn of the branch `formula`: coefficient * tw**2 * (1 + factor *
\* (tw/tf)**1.5) * math.sqrt(E_STEEL * Fy * tf / tw) / 1000
CripplingRn(formula, s, Fy, lb, tf) ==
    RDiv(RMul(RMul(RMul(IF formula = "interior" THEN Rat(80, 100) ELSE Rat(40, 100),
                        RSq(s.tw)),
                   RAdd(One,
                        RMul(IF formula = "end, lb/d > 0.2"
                             THEN RSub(RDiv(RMul(R(4), lb), s.d), Rat(2, 10))
                             ELSE RMul(R(3), RDiv(lb, s.d)),
                             RPow15(RDiv(s.tw, tf))))),
              RSqrt(RDiv(RMul(RMul(R(E_STEEL), Fy), tf), s.tw))),
         R(1000))

CripplingResult(Rn, Rn_allow, R_applied, lb) ==
    [lb |-> lb, Rn |-> Rn, Rn_allow |-> Rn_allow, R_applied |-> R_applied,
     ratio |-> IF RLt(Zero, Rn_allow) THEN RDiv(R_applied, Rn_allow) ELSE R(999),
     status |-> RatioStatus(IF RLt(Zero, Rn_allow) THEN RDiv(R_applied, Rn_allow)
                            ELSE R(999))]

CripplingFromRn(Rn, R_applied, lb) ==
    CripplingResult(Rn, RDiv(Rn, OMEGA_WCR), R_applied, lb)

check_web_crippling(s, Fy, R_applied, lb, at_support) ==
    CripplingFromRn(CripplingRn(CripplingFormula(RDiv(lb, s.d), at_support),
                                s, Fy, lb, CripplingFlange(s)),
                    R_applied, lb)

---------------------------------------------------------------------------
(* Flange-to-web weld check of built-up sections.                          *)

\* WELD_ELECTRODES: FEXX by electrode classification
WELD_ELECTRODES ==
    [e \in {"E60", "E70", "E80", "E90", "E100", "E110"} |->
        CASE e = "E60" -> 415 [] e = "E70" -> 480 [] e = "E80" -> 550
          [] e = "E90" -> 620 [] e = "E100" -> 690 [] e = "E110" -> 760]

\* MIN_FILLET_WELD_SIZE in ascending order of the thickness limit
MIN_FILLET_WELD_SIZE ==
    << <<Rat(635, 100), 3>>, <<Rat(127, 10), 5>>, <<Rat(1905, 100), 6>>,
       <<Rat(381, 10), 8>>, <<Rat(5715, 100), 10>>, <<Rat(1524, 10), 13>> >>

\* WeldDesignData(): the dataclass defaults
DefaultWeldData ==
    [weld_type |-> "fillet", electrode |-> "E70", weld_size |-> R(6),
     weld_length |-> Zero, num_welds |-> 2, is_continuous |-> TRUE,
     intermittent_length |-> Zero, intermittent_spacing |-> Zero]

RECURSIVE MinFilletFrom(_, _)
MinFilletFrom(t_thick, i) ==
    IF i > Len(MIN_FILLET_WELD_SIZE) THEN R(13)
    ELSE IF RLe(t_thick, MIN_FILLET_WELD_SIZE[i][1]) THEN R(MIN_FILLET_WELD_SIZE[i][2])
    ELSE MinFilletFrom(t_thick, i + 1)

get_min_fillet_weld_size(t_thick) == MinFilletFrom(t_thick, 1)

get_max_fillet_weld_size(t_edge) ==
    IF RLt(t_edge, Rat(635, 100)) THEN t_edge ELSE RSub(t_edge, Rat(16, 10))

\* math.sin(math.radians(weld_angle)) at the two angles the program uses
SinDegrees(weld_angle) == IF weld_angle = 90 THEN One ELSE Zero

calc_fillet_weld_strength(weld_size, FEXX, Fy_base, t_base, weld_angle) ==
    LET throat == RMul(Rat(707, 1000), weld_size)
        Fnw == RMul(Rat(60, 100), FEXX)
        dir_factor == RAdd(One, RMul(Rat(50, 100), RPow15(SinDegrees(weld_angle))))
        Fnw_dir == RMul(RMul(Rat(60, 100), FEXX), dir_factor)
        Rn_weld == RMul(Fnw, throat)
        Rn_weld_dir == RMul(Fnw_dir, throat)
        Fu_base == RMul(Fy_base, Rat(13, 10))
        Rn_base == RMul(RMul(Rat(60, 100), Fu_base), t_base)
        Rn == RMin(Rn_weld, Rn_base)
        Rn_dir == RMin(Rn_weld_dir, Rn_base)
        omega == R(2)
    IN  [throat |-> throat, Fnw |-> Fnw, Fnw_dir |-> Fnw_dir, dir_factor |-> dir_factor,
         Rn_weld |-> Rn_weld, Rn_weld_dir |-> Rn_weld_dir, Rn_base |-> Rn_base,
         Rn |-> Rn, Rn_dir |-> Rn_dir, Rn_allow |-> RDiv(Rn, omega),
         Rn_allow_dir |-> RDiv(Rn_dir, omega), omega |-> omega,
         governs |-> IF RLe(Rn_weld, Rn_base) THEN "Weld" ELSE "Base Metal"]

calc_groove_weld_strength(weld_type, FEXX, Fy_base, t_base, throat) ==
    IF weld_type = "CJP"
    THEN LET Rn_tension == RMul(Fy_base, t_base)
             Rn_shear == RMin(RMul(RMul(Rat(60, 100), FEXX), t_base),
                              RMul(RMul(Rat(60, 100), Fy_base), t_base))
         IN  [throat |-> t_base, Rn_tension |-> Rn_tension, Rn_shear |-> Rn_shear,
              Rn_allow_tension |-> RDiv(Rn_tension, Rat(167, 100)),
              Rn_allow_shear |-> RDiv(Rn_shear, Rat(150, 100)), full_strength |-> TRUE]
    ELSE LET effective_throat == IF RLt(Zero, throat) THEN throat
                                 ELSE RMul(t_base, Rat(5, 10))
             Fn_weld == RMul(Rat(60, 100), FEXX)
             Rn_tension == RMin(RMul(Fn_weld, effective_throat),
                                RMul(Fy_base, effective_throat))
             Rn_shear == RMul(RMul(Rat(60, 100), FEXX), effective_throat)
         IN  [throat |-> effective_throat, Rn_tension |-> Rn_tension,
              Rn_shear |-> Rn_shear, Rn_allow_tension |-> RDiv(Rn_tension, R(2)),
              Rn_allow_shear |-> RDiv(Rn_shear, R(2)), full_strength |-> FALSE]

\* one entry of results['checks']: ratio is <<>> where the entry has no 'ratio' key
WeldCheck(name, ok, ratio) == [name |-> name, ok |-> ok, ratio |-> ratio]

RECURSIVE AllOk(_)
AllOk(checks) == checks = <<>> \/ (Head(checks).ok /\ AllOk(Tail(checks)))

\* [check['ratio'] for check in checks if 'ratio' in check]
RECURSIVE CheckRatios(_)
CheckRatios(checks) ==
    IF checks = <<>> THEN <<>>
    ELSE Head(checks).ratio \o CheckRatios(Tail(checks))

\* max(ratios) of a non-empty list
RECURSIVE RMaxOf(_)
RMaxOf(ratios) ==
    IF Len(ratios) = 1 THEN ratios[1] ELSE RMax(ratios[1], RMaxOf(Tail(ratios)))

\* check_weld_for_built_up_section divides by Ix and by num_welds, neither tested
check_weld_for_built_up_section_raises(s, V_design, M_design, weld_data, Fy) ==
    s.Ix = Zero \/ weld_data.num_welds = 0

\* WELD_ELECTRODES.get(electrode, WELD_ELECTRODES['E70'])['FEXX']
ElectrodeStrength(electrode) ==
    R(IF electrode \in DOMAIN WELD_ELECTRODES THEN WELD_ELECTRODES[electrode]
      ELSE WELD_ELECTRODES["E70"])

\* lines 1256-1260: the flange and web the weld joins
WeldedParts(s) ==
    [tf |-> IF RLt(Zero, s.tf_top) THEN s.tf_top ELSE s.tf,
     bf |-> IF RLt(Zero, s.bf_top) THEN s.bf_top ELSE s.bf,
     d |-> s.d, tw |-> s.tw, Ix |-> s.Ix]

\* lines 1264-1266: the first moment of area of the flange
FlangeMoment(p) ==
    [tf |-> p.tf, tw |-> p.tw, Ix |-> p.Ix,
     y_flange |-> RDiv(RSub(p.d, p.tf), R(2)),
     A_flange |-> RMul(p.bf, p.tf),
     Q |-> RMul(RMul(p.bf, p.tf), RDiv(RSub(p.d, p.tf), R(2)))]

\* lines 1273-1278: the shear flow
ShearFlow(f, V_design, num_welds) ==
    [tf |-> f.tf, tw |-> f.tw, y_flange |-> f.y_flange, A_flange |-> f.A_flange,
     Q |-> f.Q,
     q |-> RDiv(RMul(RMul(V_design, R(1000)), f.Q), f.Ix),
     q_per_weld |-> RDiv(RDiv(RMul(RMul(V_design, R(1000)), f.Q), f.Ix), R(num_welds))]

\* lines 1307-1309, 1324-1326: the weld strength dictionary
WeldStrength(weld_data, FEXX, Fy, tw) ==
    IF weld_data.weld_type = "fillet"
    THEN calc_fillet_weld_strength(weld_data.weld_size, FEXX, Fy, tw, 0)
    ELSE calc_groove_weld_strength(
             weld_data.weld_type, FEXX, Fy, tw,
             IF weld_data.weld_type = "PJP" THEN weld_data.weld_size ELSE tw)

\* Rn_allow of a strength dictionary
AllowableOf(weld_data, weld_str) ==
    IF weld_data.weld_type = "fillet" THEN weld_str.Rn_allow ELSE weld_str.Rn_allow_shear

\* the demand/capacity ratio of CHECK 3
StrengthRatio(q_per_weld, Rn_allow) ==
    IF RLt(Zero, Rn_allow) THEN RDiv(q_per_weld, Rn_allow) ELSE R(999)

\* CHECK 3
StrengthCheck(weld_data, ratio_strength) ==
    WeldCheck(IF weld_data.weld_type = "fillet" THEN "Weld Shear Strength (J2.4)"
              ELSE "Groove Weld Shear (J2.3)",
              RLe(ratio_strength, One), <<ratio_strength>>)

\* CHECK 4
IntermittentChecks(weld_data, tw) ==
    IF ~weld_data.is_continuous /\ RLt(Zero, weld_data.intermittent_spacing)
    THEN << WeldCheck("Intermittent Weld Spacing",
                      RLe(weld_data.intermittent_spacing,
                          RMin(RMul(R(24), tw), R(305))), <<>>),
            WeldCheck("Minimum Intermittent Weld Length",
                      RLe(RMax(RMul(R(4), weld_data.weld_size), R(38)),
                          weld_data.intermittent_length), <<>>) >>
    ELSE <<>>

\* lines 1366-1367
RequiredSize(q_per_weld, FEXX, w_min) ==
    RMax(RDiv(RMul(q_per_weld, R(2)), RMul(RMul(Rat(6, 10), FEXX), Rat(707, 1000))),
         w_min)

\* CHECK 5
RequiredCheck(weld_data, w_required) ==
    IF weld_data.weld_type = "fillet"
    THEN << WeldCheck("Required vs Provided Weld Size",
                      RLe(w_required, weld_data.weld_size), <<>>) >>
    ELSE <<>>

\* lines 1379-1383: the overall status of the checks made
WeldVerdict(checks) ==
    [checks |-> checks, ok |-> AllOk(checks),
     ratio |-> IF CheckRatios(checks) # <<>> THEN RMaxOf(CheckRatios(checks))
               ELSE IF AllOk(checks) THEN Zero ELSE R(999),
     status |-> IF AllOk(checks) THEN "OK" ELSE "NG"]

\* the results dictionary put together
WeldResults(weld_data, FEXX, f, w_min, w_max, weld_str, Rn_allow, w_required, v) ==
    [weld_type |-> weld_data.weld_type, electrode |-> weld_data.electrode,
     weld_size |-> weld_data.weld_size, checks |-> v.checks, ok |-> v.ok,
     ratio |-> v.ratio, status |-> v.status,
     FEXX |-> FEXX, Q |-> f.Q, y_flange |-> f.y_flange, A_flange |-> f.A_flange,
     shear_flow |-> f.q, q_per_weld |-> f.q_per_weld, w_min |-> w_min, w_max |-> w_max,
     throat |-> weld_str.throat, Rn_allow |-> Rn_allow,
     w_required |-> IF weld_data.weld_type = "fillet" THEN <<w_required>> ELSE <<>>]

\* lines 1281-1385 once the sizes, the strength and the required size are known
WeldFromStrength(weld_data, FEXX, f, w_min, w_max, weld_str, Rn_allow, w_required) ==
    WeldResults(weld_data, FEXX, f, w_min, w_max, weld_str, Rn_allow, w_required,
        WeldVerdict(
            << WeldCheck("Minimum Weld Size (Table J2.4)",
                         RLe(w_min, weld_data.weld_size), <<>>),
               WeldCheck("Maximum Weld Size (J2.2b)",
                         RLe(weld_data.weld_size, w_max), <<>>),
               StrengthCheck(weld_data, StrengthRatio(f.q_per_weld, Rn_allow)) >>
            \o IntermittentChecks(weld_data, f.tw)
            \o RequiredCheck(weld_data, w_required)))

\* lines 1281-1385 on the shear flow f
WeldFromFlow(weld_data, FEXX, Fy, f, w_min, weld_str) ==
    WeldFromStrength(weld_data, FEXX, f, w_min,
                     get_max_fillet_weld_size(RMin(f.tf, f.tw)), weld_str,
                     AllowableOf(weld_data, weld_str),
                     RequiredSize(f.q_per_weld, FEXX, w_min))

\* lines 1252-1385 on the flange moment m
WeldFromMoment(weld_data, FEXX, Fy, V_design, m) ==
    WeldFromFlow(weld_data, FEXX, Fy, ShearFlow(m, V_design, weld_data.num_welds),
                 get_min_fillet_weld_size(RMax(m.tf, m.tw)),
                 WeldStrength(weld_data, FEXX, Fy, m.tw))

check_weld_for_built_up_section(s, V_design, M_design, weld_data, Fy) ==
    WeldFromMoment(weld_data, ElectrodeStrength(weld_data.electrode), Fy, V_design,
                   FlangeMoment(WeldedParts(s)))

---------------------------------------------------------------------------
(* Fatigue check and stiffener checks.                                     *)

\* FATIGUE_CATEGORIES: the stress categories whose Cf is below 2^31
FATIGUE_CATEGORIES ==
    [c \in {"E", "E'"} |->
        IF c = "E" THEN [Cf |-> 1100000000, FTH |-> 31]
                   ELSE [Cf |-> 390000000, FTH |-> 18]]

\* FATIGUE_CATEGORIES.get(category, FATIGUE_CATEGORIES['E'])
FatigueCategory(category) ==
    IF category \in DOMAIN FATIGUE_CATEGORIES
    THEN FATIGUE_CATEGORIES[category]
    ELSE FATIGUE_CATEGORIES["E"]

\* the largest k in lo..hi with k * k * k <= n, for lo * lo * lo <= n
RECURSIVE ICbrtIn(_, _, _)
ICbrtIn(n, lo, hi) ==
    IF lo >= hi THEN lo
    ELSE LET mid == (lo + hi + 1) \div 2
         IN  IF mid * mid * mid <= n THEN ICbrtIn(n, mid, hi)
                                     ELSE ICbrtIn(n, lo, mid - 1)

\* q ** (1/3), q >= 0, rounded down to 2, 1 or 0 decimals, the most that keeps
\* the intermediate integer below 2^31
RCbrt(q) ==
    LET S == IF q[1] <= 2147 THEN 100
             ELSE IF q[1] <= 2147483 THEN 10
             ELSE 1
    IN  Rat(ICbrtIn((q[1] * S * S * S) \div q[2], 0, 1290), S)

\* Cf / N_cycles divides by an untested N_cycles
check_fatigue_raises(s, M_range, N_cycles, category) == N_cycles = 0

\* f_sr, and F_sr before and after max(F_sr, FTH)
FatigueStress(s, M_range) ==
    IF RLt(Zero, s.Sx) THEN RDiv(RMul(M_range, R(1000000)), s.Sx) ELSE Zero

FatigueAllowable(cat, N_cycles) ==
    RMax(RCbrt(RDiv(R(cat.Cf), R(N_cycles))), R(cat.FTH))

FatigueResult(f_sr, F_sr, cat, N_cycles, category, ratio) ==
    [f_sr |-> f_sr, F_sr |-> F_sr, FTH |-> R(cat.FTH), Cf |-> R(cat.Cf),
     N_cycles |-> N_cycles, category |-> category,
     ratio |-> ratio, status |-> RatioStatus(ratio)]

FatigueFrom(f_sr, F_sr, cat, N_cycles, category) ==
    FatigueResult(f_sr, F_sr, cat, N_cycles, category,
                  IF RLt(Zero, F_sr) THEN RDiv(f_sr, F_sr) ELSE R(999))

check_fatigue(s, M_range, N_cycles, category) ==
    FatigueFrom(FatigueStress(s, M_range),
                FatigueAllowable(FatigueCategory(category), N_cycles),
                FatigueCategory(category), N_cycles, category)

OMEGA_COMP == Rat(167, 100)
OMEGA_BEARING == Rat(200, 100)

\* class StiffenerData: the field defaults
DefaultStiffenerData ==
    [has_transverse |-> FALSE, trans_spacing |-> Zero, trans_t |-> R(10),
     trans_b |-> R(80),
     has_bearing |-> FALSE, bearing_t |-> R(12), bearing_b |-> R(100),
     has_longitudinal |-> FALSE, long_t |-> R(10), long_b |-> R(80),
     long_position |-> Rat(2, 10), weld_size |-> R(6)]

\* hw = sec.hw if sec.hw > 0 else sec.d - 2 * sec.tf
StiffenerWebHeight(s) ==
    IF RLt(Zero, s.hw) THEN s.hw ELSE RSub(s.d, RMul(R(2), s.tf))

\* one entry of results['checks']: the name and the verdict (demand and capacity
\* are display text)
StiffenerCheck(name, ok) == [name |-> name, ok |-> ok]

\* the dictionary every stiffener check starts from
StiffenerNotRequired == [ok |-> TRUE, checks |-> <<>>, required |-> FALSE]

\* 0.56 * math.sqrt(E_STEEL / Fy)
StiffenerBTLimit(Fy) == RMul(Rat(56, 100), SqrtEOverFy(Fy))

\* b / t if t > 0 else 999
StiffenerBTRatio(b, t) == IF RLt(Zero, t) THEN RDiv(b, t) ELSE R(999)

\* <<q, r>> with a * b = q * c + r and 0 <= r < c, for naturals a, b and
\* 0 < c < 2^26, computed sixteen-fold without forming the product a * b
MulDivStep(h, a, digit, c) ==
    << 16 * h[1] + digit * (a \div c) + ((16 * h[2] + digit * (a % c)) \div c),
       (16 * h[2] + digit * (a % c)) % c >>

RECURSIVE MulDivQR(_, _, _)
MulDivQR(a, b, c) ==
    IF b = 0 THEN <<0, 0>> ELSE MulDivStep(MulDivQR(a, b \div 16, c), a, b % 16, c)

\* math.pi at two decimals
PI == Rat(314, 100)

\* math.pi**2 * E_STEEL / KL_r**2, rounded down to one decimal
EulerStress(KL_r) ==
    Rat(MulDivQR(10 * RMul(RSq(PI), R(E_STEEL))[1], KL_r[2] * KL_r[2],
                 KL_r[1] * KL_r[1] * RMul(RSq(PI), R(E_STEEL))[2])[1], 10)

\* b ** n for a base b in ten-thousandths, by squaring, each product rounded
\* down
FixPowStep(h, b, odd) ==
    IF odd = 1 THEN (((h * h) \div 10000) * b) \div 10000 ELSE (h * h) \div 10000

RECURSIVE FixPow(_, _)
FixPow(b, n) == IF n = 0 THEN 10000 ELSE FixPowStep(FixPow(b, n \div 2), b, n % 2)

\* 0.658 ** x for x >= 0: x is rounded down to hundredths, 0.658 ** 0.01 is
\* 0.9958, and the power is formed in ten-thousandths
Pow658Hundredths(n) ==
    Rat((FixPow(6580, n \div 100) * FixPow(9958, n % 100)) \div 10000, 10000)

Pow658(x) == Pow658Hundredths((x[1] * 100) \div x[2])

\* A_eff and I_eff of the pair of stiffeners and the web strip
BearingColumn(s, stiff, web_eff) ==
    [A_eff |-> RAdd(RMul(R(2), RMul(stiff.bearing_b, stiff.bearing_t)),
                    RMul(web_eff, s.tw)),
     I_eff |-> RAdd(RMul(R(2),
                         RAdd(RMul(Rat(1, 12),
                                   RMul(stiff.bearing_t, RCube(stiff.bearing_b))),
                              RMul(RMul(stiff.bearing_t, stiff.bearing_b),
                                   RSq(RAdd(RDiv(stiff.bearing_b, R(2)),
                                            RDiv(s.tw, R(2))))))),
                    RMul(Rat(1, 12), RMul(web_eff, RCube(s.tw))))]

\* r = math.sqrt(I_eff / A_eff) if A_eff > 0 else 1
BearingRadius(col) ==
    IF RLt(Zero, col.A_eff) THEN RSqrt(RDiv(col.I_eff, col.A_eff)) ELSE One

\* KL_r = L_eff / r if r > 0 else 999, with L_eff = 0.75 * hw
BearingSlenderness(hw, r) ==
    IF RLt(Zero, r) THEN RDiv(RMul(Rat(75, 100), hw), r) ELSE R(999)

\* Fcr from Fe = ... if KL_r > 0 else Fy
BearingFcrFrom(KL_r, Fe, Fy) ==
    IF RLe(KL_r, RMul(Rat(471, 100), SqrtEOverFy(Fy)))
    THEN RMul(Fy, Pow658(RDiv(Fy, Fe)))
    ELSE RMul(Rat(877, 1000), Fe)

BearingFcr(KL_r, Fy) ==
    BearingFcrFrom(KL_r, IF RLt(Zero, KL_r) THEN EulerStress(KL_r) ELSE Fy, Fy)

\* Pn = Fcr * A_eff / 1000
BearingPn(s, Fy, stiff, col, hw) ==
    RDiv(RMul(BearingFcr(BearingSlenderness(hw, BearingRadius(col)), Fy), col.A_eff),
         R(1000))

\* Pb = 1.8 * Fy * A_bearing / 1000 / OMEGA_BEARING with clip = 25
BearingPb(Fy, stiff) ==
    RDiv(RDiv(RMul(RMul(Rat(18, 10), Fy),
                   RMul(R(2), RMul(RSub(stiff.bearing_b, R(25)), stiff.bearing_t))),
              R(1000)),
         OMEGA_BEARING)

BearingResult(bt_ok, col_ok, bear_ok, Pn, Pa, Pu) ==
    [ok |-> bt_ok /\ col_ok /\ bear_ok,
     checks |-> << StiffenerCheck("b/t Ratio", bt_ok),
                   StiffenerCheck("Column Capacity", col_ok),
                   StiffenerCheck("Bearing", bear_ok) >>,
     required |-> TRUE, Pn |-> Pn, Pa |-> Pa,
     ratio |-> IF RLt(Zero, Pa) THEN RDiv(Pu, Pa) ELSE R(999)]

BearingFromPn(Fy, Pu, stiff, Pn) ==
    BearingResult(RLe(StiffenerBTRatio(stiff.bearing_b, stiff.bearing_t),
                      StiffenerBTLimit(Fy)),
                  RLe(Pu, RDiv(Pn, OMEGA_COMP)),
                  RLe(Pu, BearingPb(Fy, stiff)),
                  Pn, RDiv(Pn, OMEGA_COMP), Pu)

\* E_STEEL / Fy divides by an untested Fy once the stiffener is present
check_bearing_stiffener_raises(s, Fy, Pu, stiff, at_support) ==
    stiff.has_bearing /\ Fy = Zero

check_bearing_stiffener(s, Fy, Pu, stiff, at_support) ==
    IF ~stiff.has_bearing THEN StiffenerNotRequired
    ELSE BearingFromPn(Fy, Pu, stiff,
                       BearingPn(s, Fy, stiff,
                                 BearingColumn(s, stiff,
                                               RMul(IF at_support THEN R(25) ELSE R(24),
                                                    s.tw)),
                                 StiffenerWebHeight(s)))

\* the dictionary of a transverse stiffener check that ran
TransverseResult(bt_ok, I_ok, b_ok, Ist_req, Ist_prov) ==
    [ok |-> bt_ok /\ I_ok /\ b_ok,
     checks |-> << StiffenerCheck("b/t Ratio", bt_ok),
                   StiffenerCheck("Moment of Inertia", I_ok),
                   StiffenerCheck("Min Width", b_ok) >>,
     required |-> TRUE, Ist_req |-> Ist_req, Ist_prov |-> Ist_prov]

\* j = max(2.5 / (a_h**2) - 2, 0.5); Ist_req = b_st * sec.tw**3 * j
TransverseIstReq(s, b_st, a_h) ==
    RMul(RMul(b_st, RCube(s.tw)),
         RMax(RSub(RDiv(Rat(25, 10), RSq(a_h)), R(2)), Rat(5, 10)))

\* Ist_prov = (1/12) * t_st * b_st**3 + t_st * b_st * (b_st/2)**2
TransverseIstProv(t_st, b_st) ==
    RAdd(RDiv(RMul(t_st, RCube(b_st)), R(12)),
         RMul(RMul(t_st, b_st), RSq(RDiv(b_st, R(2)))))

TransverseFrom(s, Fy, stiff, hw, Ist_req, Ist_prov) ==
    TransverseResult(RLe(StiffenerBTRatio(stiff.trans_b, stiff.trans_t),
                         StiffenerBTLimit(Fy)),
                     RLe(Ist_req, Ist_prov),
                     RLe(RAdd(RDiv(hw, R(30)), s.tw), stiff.trans_b),
                     Ist_req, Ist_prov)

TransverseApplies(s, stiff) ==
    /\ stiff.has_transverse
    /\ RLt(Zero, stiff.trans_spacing)
    /\ RLt(Zero, StiffenerWebHeight(s))

\* E_STEEL / Fy divides by an untested Fy once the stiffener is checked
check_transverse_stiffener_raises(s, Fy, stiff) ==
    TransverseApplies(s, stiff) /\ Fy = Zero

check_transverse_stiffener(s, Fy, stiff) ==
    IF ~TransverseApplies(s, stiff) THEN StiffenerNotRequired
    ELSE TransverseFrom(s, Fy, stiff, StiffenerWebHeight(s),
                        TransverseIstReq(s, stiff.trans_b,
                                         RDiv(stiff.trans_spacing, StiffenerWebHeight(s))),
                        TransverseIstProv(stiff.trans_t, stiff.trans_b))

\* the dictionary of a longitudinal stiffener check that ran
LongitudinalResult(bt_ok, I_ok, pos_ok, Icr, Il_prov) ==
    [ok |-> bt_ok /\ I_ok /\ pos_ok,
     checks |-> << StiffenerCheck("b/t Ratio", bt_ok),
                   StiffenerCheck("Moment of Inertia", I_ok),
                   StiffenerCheck("Position", pos_ok) >>,
     required |-> TRUE, Icr |-> Icr, Il_prov |-> Il_prov]

\* Icr = hw * sec.tw**3 * 2.4; Il_prov = (1/12) * t_st * b_st**3;
\* I_ok = Il_prov >= Icr * 0.5; pos_ok = 0.15 <= stiff.long_position <= 0.35
LongitudinalFrom(Fy, stiff, Icr, Il_prov) ==
    LongitudinalResult(RLe(StiffenerBTRatio(stiff.long_b, stiff.long_t),
                           StiffenerBTLimit(Fy)),
                       RLe(RMul(Icr, Rat(5, 10)), Il_prov),
                       RLe(Rat(15, 100), stiff.long_position)
                           /\ RLe(stiff.long_position, Rat(35, 100)),
                       Icr, Il_prov)

check_longitudinal_stiffener_raises(s, Fy, stiff) ==
    stiff.has_longitudinal /\ Fy = Zero

check_longitudinal_stiffener(s, Fy, stiff) ==
    IF ~stiff.has_longitudinal THEN StiffenerNotRequired
    ELSE LongitudinalFrom(Fy, stiff,
                          RMul(RMul(StiffenerWebHeight(s), RCube(s.tw)), Rat(24, 10)),
                          RDiv(RMul(stiff.long_t, RCube(stiff.long_b)), R(12)))

---------------------------------------------------------------------------
(* Flexural strength: calc_Lp_Lr and calc_flexural_strength.  Lengths are  *)
(* in mm and moments in kN-m.  The lateral-torsional formulas mix numbers  *)
(* of very different magnitude, so they are evaluated in a decimal         *)
(* floating point of four digits, <<m, e>> standing for m * 10^e with      *)
(* 1000 <= |m| <= 9999 (or m = 0): Python's binary floating point at a     *)
(* shorter mantissa, every operation rounded toward zero.                  *)

OMEGA_FLEX == Rat(167, 100)

Pow10(k) ==
    CASE k = 0 -> 1 [] k = 1 -> 10 [] k = 2 -> 100 [] k = 3 -> 1000
      [] k = 4 -> 10000 [] k = 5 -> 100000 [] k = 6 -> 1000000
      [] k = 7 -> 10000000 [] k = 8 -> 100000000 [] k = 9 -> 1000000000

\* the magnitude m >= 0 at exponent e brought to four digits
RECURSIVE FlNormAbs(_, _)
FlNormAbs(m, e) ==
    IF m = 0 THEN <<0, 0>>
    ELSE IF m >= 10000 THEN FlNormAbs(m \div 10, e + 1)
    ELSE IF m < 1000 THEN FlNormAbs(m * 10, e - 1)
    ELSE <<m, e>>

FlSigned(f, negative) == IF negative THEN <<-f[1], f[2]>> ELSE f

FlNorm(m, e) == FlSigned(FlNormAbs(Abs(m), e), m < 0)

FlMul(a, b) == FlNorm(a[1] * b[1], a[2] + b[2])

\* a / b for b # 0
FlDiv(a, b) ==
    FlSigned(FlNormAbs((Abs(a[1]) * 100000) \div Abs(b[1]), a[2] - b[2] - 5),
             (a[1] < 0) # (b[1] < 0))

\* hi + lo for hi the operand of the larger exponent
FlAddOrdered(hi, lo) ==
    IF lo[1] = 0 \/ hi[2] - lo[2] >= 5 THEN hi
    ELSE FlNorm(hi[1] * Pow10(hi[2] - lo[2]) + lo[1], lo[2])

FlAdd(a, b) ==
    IF a[1] = 0 THEN b
    ELSE IF a[2] >= b[2] THEN FlAddOrdered(a, b)
    ELSE FlAddOrdered(b, a)

FlSub(a, b) == FlAdd(a, <<-b[1], b[2]>>)

\* math.sqrt(a) for a >= 0
FlSqrt(a) ==
    IF a[2] % 2 = 0
    THEN FlNorm(ISqrt(a[1] * 10000), (a[2] - 4) \div 2)
    ELSE FlNorm(ISqrt(a[1] * 100000), (a[2] - 5) \div 2)

\* the float of the rational q
FlOf(q) == FlDiv(FlNorm(q[1], 0), FlNorm(q[2], 0))

\* the rational a float stands for
FlRat(f) == IF f[2] >= 0 THEN R(f[1] * Pow10(f[2])) ELSE Rat(f[1], Pow10(-f[2]))

\* ry = sec.ry if sec.ry > 0 else math.sqrt(sec.Iy / sec.A) if sec.A > 0 else 1
FlexRy(s) ==
    IF RLt(Zero, s.ry) THEN s.ry
    ELSE IF RLt(Zero, s.A) THEN RSqrt(RDiv(s.Iy, s.A))
    ELSE One

\* ho = sec.ho if sec.ho > 0 else sec.d - sec.tf
FlexHo(s) == IF RLt(Zero, s.ho) THEN s.ho ELSE RSub(s.d, s.tf)

\* Lp = 1.76 * ry * math.sqrt(E_STEEL / Fy)
FlexLp(s, Fy) == RMul(RMul(Rat(176, 100), FlexRy(s)), SqrtEOverFy(Fy))

\* term1 = sec.J * c / (sec.Sx * ho) with c = 1.0, for Sx > 0 and ho > 0
FlexTerm(s) == FlDiv(FlOf(s.J), FlMul(FlOf(s.Sx), FlOf(FlexHo(s))))

\* 0.7 * Fy
FlexFL(Fy) == FlMul(FlOf(Rat(7, 10)), FlOf(Fy))

\* term2 = math.sqrt(term1**2 + 6.76 * (0.7 * Fy / E_STEEL)**2)
FlexTerm2(term1, strain) ==
    FlSqrt(FlAdd(FlMul(term1, term1), FlMul(FlOf(Rat(676, 100)), FlMul(strain, strain))))

\* 1.95 * rts * (E_STEEL / (0.7 * Fy)) * math.sqrt(term1 + term2)
FlexLrFrom(rts, Fy, term1, term2) ==
    FlMul(FlMul(FlMul(FlOf(Rat(195, 100)), FlOf(rts)),
                FlDiv(FlOf(R(E_STEEL)), FlexFL(Fy))),
          FlSqrt(FlAdd(term1, term2)))

FlexLr(s, Fy, rts) ==
    IF RLt(Zero, s.Sx) /\ RLt(Zero, FlexHo(s))
    THEN FlRat(FlexLrFrom(rts, Fy, FlexTerm(s),
                          FlexTerm2(FlexTerm(s), FlDiv(FlexFL(Fy), FlOf(R(E_STEEL))))))
    ELSE RMul(FlexLp(s, Fy), R(3))

\* calc_Lp_Lr divides by Fy, untested
calc_Lp_Lr_raises(s, Fy) == Fy = Zero

calc_Lp_Lr(s, Fy) ==
    [Lp |-> FlexLp(s, Fy),
     Lr |-> FlexLr(s, Fy, IF RLt(Zero, s.rts) THEN s.rts ELSE FlexRy(s))]

\* Mp = Fy * sec.Zx / 1e6 if sec.Zx > 0 else Fy * sec.Sx * 1.12 / 1e6
FlexMp(s, Fy) ==
    IF RLt(Zero, s.Zx) THEN RDiv(RMul(Fy, s.Zx), R(1000000))
    ELSE RDiv(RMul(RMul(Fy, s.Sx), Rat(112, 100)), R(1000000))

\* My = Fy * sec.Sx / 1e6
FlexMy(s, Fy) == RDiv(RMul(Fy, s.Sx), R(1000000))

\* the lateral-torsional regime Lb selects
FlexRegime(Lb, L) ==
    IF RLe(Lb, L.Lp) THEN "Yielding (Lb <= Lp)"
    ELSE IF RLe(Lb, L.Lr) THEN "Inelastic LTB"
    ELSE "Elastic LTB"

\* rts of the elastic branch: sec.rts if sec.rts > 0 else sec.ry
FlexElasticRts(s) == IF RLt(Zero, s.rts) THEN s.rts ELSE s.ry

\* Fcr = (Cb * math.pi**2 * E_STEEL / (Lb / rts)**2) * math.sqrt(1 + 0.078 *
\* term * (Lb / rts)**2), from sl2 = (Lb / rts)**2
FlexFcrFrom(term, sl2) ==
    FlMul(FlDiv(FlMul(FlMul(FlOf(PI), FlOf(PI)), FlOf(R(E_STEEL))), sl2),
          FlSqrt(FlAdd(FlOf(One), FlMul(FlMul(FlOf(Rat(78, 1000)), term), sl2))))

FlexSlenderness2(Lb, rts) == FlMul(FlDiv(FlOf(Lb), FlOf(rts)), FlDiv(FlOf(Lb), FlOf(rts)))

FlexFcr(s, Fy, Lb) ==
    IF RLt(Zero, s.Sx) /\ RLt(Zero, FlexHo(s))
    THEN FlexFcrFrom(FlexTerm(s), FlexSlenderness2(Lb, FlexElasticRts(s)))
    ELSE FlexFL(Fy)

\* Mp - (Mp - 0.7 * My) * (x - lo) / (hi - lo): the interpolation of the
\* inelastic branch and of flange local buckling
FlexInterpolate(Mp, My, x, lo, hi) ==
    FlRat(FlSub(FlOf(Mp),
                FlDiv(FlMul(FlSub(FlOf(Mp), FlMul(FlOf(Rat(7, 10)), FlOf(My))),
                            FlSub(FlOf(x), FlOf(lo))),
                      FlSub(FlOf(hi), FlOf(lo)))))

\* Mn of the regime, before local buckling
FlexLTB(s, Fy, Lb, L, Mp, My) ==
    IF RLe(Lb, L.Lp) THEN Mp
    ELSE IF RLe(Lb, L.Lr)
    THEN RMin(FlexInterpolate(Mp, My, Lb, L.Lp, L.Lr), Mp)
    ELSE RMin(FlRat(FlDiv(FlMul(FlexFcr(s, Fy, Lb), FlOf(s.Sx)), FlOf(R(1000000)))), Mp)

\* Mn_flb of a Noncompact flange
FlexFLB(cmp, Mp, My) ==
    FlexInterpolate(Mp, My, cmp.lambda_f, cmp.lambda_pf, cmp.lambda_rf)

\* Mn_flb of a Noncompact flange taken whether or not it is below Mn
FlexAfterFLB_Unconditional(cmp, Mp, My, Mn, regime) ==
    IF cmp.flange_class = "Noncompact"
    THEN [Mn |-> FlexFLB(cmp, Mp, My), limit_state |-> "Flange Local Buckling"]
    ELSE [Mn |-> Mn, limit_state |-> regime]

\* [Mn, limit_state] after the flange local buckling test
FlexAfterFLB(cmp, Mp, My, Mn, regime) ==
    IF cmp.flange_class = "Noncompact" /\ RLt(FlexFLB(cmp, Mp, My), Mn)
    THEN [Mn |-> FlexFLB(cmp, Mp, My), limit_state |-> "Flange Local Buckling"]
    ELSE [Mn |-> Mn, limit_state |-> regime]

\* bf * tf of the Rpg factor
FlexFlangeArea(s) ==
    RMul(IF RLt(Zero, s.bf_top) THEN RMax(s.bf_top, s.bf_bot) ELSE s.bf,
         IF RLt(Zero, s.tf_top) THEN RMax(s.tf_top, s.tf_bot) ELSE s.tf)

\* Rpg = min(1.0, max(1 - aw / (1200 + 300 * aw) * (hw / tw - 5.7 *
\* sqrt(E / Fy)), 0.5)) from aw
FlexRpgFrom(s, Fy, aw) ==
    RMin(One,
         RMax(RSub(One, RMul(RDiv(aw, RAdd(R(1200), RMul(R(300), aw))),
                             RSub(RDiv(s.hw, s.tw),
                                  RMul(Rat(57, 10), SqrtEOverFy(Fy))))),
              Rat(5, 10)))

FlexRpg(s, Fy) == FlexRpgFrom(s, Fy, RDiv(RMul(s.hw, s.tw), FlexFlangeArea(s)))

\* f"{x:.3f}": x >= 0 rounded to the nearest thousandth
Format3(x) ==
    Rat(MulDivQR(x[1], 1000, x[2])[1]
        + (IF 2 * MulDivQR(x[1], 1000, x[2])[2] >= x[2] THEN 1 ELSE 0), 1000)

\* the returned dictionary.  limit_state is the label; Rpg_suffix is <<>>, or
\* holds the number that the suffix " + Rpg=0.xyz" appends to the label.
FlexResult(L, Lb, Mp, My, Mn, limit_state, Rpg_suffix) ==
    [Mp |-> Mp, My |-> My, Lp |-> L.Lp, Lr |-> L.Lr, Lb |-> Lb, Cb |-> One,
     Mn |-> Mn, Mn_allow |-> RDiv(Mn, OMEGA_FLEX),
     limit_state |-> limit_state, Rpg_suffix |-> Rpg_suffix]

\* the Rpg factor applied whatever the web class
FlexWithWeb_AnyWeb(s, Fy, Lb, cmp, L, Mp, My, f) ==
    FlexResult(L, Lb, Mp, My, RMul(f.Mn, FlexRpg(s, Fy)), f.limit_state,
               <<Format3(FlexRpg(s, Fy))>>)

FlexWithWeb(s, Fy, Lb, cmp, L, Mp, My, f) ==
    IF cmp.web_class = "Slender"
    THEN FlexResult(L, Lb, Mp, My, RMul(f.Mn, FlexRpg(s, Fy)), f.limit_state,
                    <<Format3(FlexRpg(s, Fy))>>)
    ELSE FlexResult(L, Lb, Mp, My, f.Mn, f.limit_state, <<>>)

FlexFrom(s, Fy, Lb, cmp, L, Mp, My) ==
    FlexWithWeb(s, Fy, Lb, cmp, L, Mp, My,
                FlexAfterFLB(cmp, Mp, My, FlexLTB(s, Fy, Lb, L, Mp, My),
                             FlexRegime(Lb, L)))

\* the divisors no line tests: Fy, Lr - Lp in the inelastic branch, rts and Lb
\* in the elastic branch, bf * tf and tw for a Slender web
FlexRaisesWith(s, Fy, Lb, cmp, L) ==
    \/ /\ ~RLe(Lb, L.Lp)
       /\ RLe(Lb, L.Lr)
       /\ FlSub(FlOf(L.Lr), FlOf(L.Lp))[1] = 0
    \/ /\ ~RLe(Lb, L.Lr)
       /\ RLt(Zero, s.Sx)
       /\ RLt(Zero, FlexHo(s))
       /\ (FlexElasticRts(s) = Zero \/ Lb = Zero)
    \/ /\ cmp.web_class = "Slender"
       /\ (FlexFlangeArea(s) = Zero \/ s.tw = Zero)

calc_flexural_strength_raises(s, Fy, Lb, cmp) ==
    Fy = Zero \/ FlexRaisesWith(s, Fy, Lb, cmp, calc_Lp_Lr(s, Fy))

calc_flexural_strength(s, Fy, Lb, cmp) ==
    FlexFrom(s, Fy, Lb, cmp, calc_Lp_Lr(s, Fy), FlexMp(s, Fy), FlexMy(s, Fy))

---------------------------------------------------------------------------
(* run_moving_load_analysis as a function of its arguments.                *)

\* lines 877-880: the load cases appended from current_pos on; the list can
\* hold MaxResults load cases
RECURSIVE SweepCases(_, _, _, _, _, _, _)
SweepCases(L, rel, loads, pos, end, step, acc) ==
    IF ~LoopCondition(pos, end) THEN [exc |-> "none", cases |-> acc]
    ELSE IF Len(acc) >= MaxResults THEN [exc |-> "MemoryError", cases |-> acc]
    ELSE SweepCases(L, rel, loads, RAdd(pos, step), end, step,
                    Append(acc, analyze_single_position(L, pos, rel, loads)))

\* lines 882-920: the critical values of the swept load cases
RunExtract(sweep) ==
    IF sweep.exc # "none" THEN [exc |-> sweep.exc, results |-> DefaultCriticalResults]
    ELSE [exc |-> "none", results |-> ExtractCritical(sweep.cases)]

\* lines 862-880: the travel limits and the stepping loop
RunSweep(L, geom, buffer_left, buffer_right, step) ==
    RunExtract(SweepCases(L, geom[1], geom[2], buffer_left,
                          TravelEnd(RSub(RSub(L, buffer_right), geom[3]), buffer_left),
                          step, <<>>))

\* lines 856-880: no wheels, a zero span, or the sweep
RunFromGeometry(L, active_cranes, geom, step) ==
    IF geom[1] = <<>> THEN [exc |-> "none", results |-> DefaultCriticalResults]
    ELSE IF analyze_single_position_raises(L, geom[1])
    THEN [exc |-> "ZeroDivisionError", results |-> DefaultCriticalResults]
    ELSE RunSweep(L, geom, active_cranes[1].buffer_left,
                  active_cranes[Len(active_cranes)].buffer_right, step)

\* the outcome of run_moving_load_analysis(beam_span, cranes, step_size,
\* num_cranes_on_beam): the exception it raised and the CriticalResults returned
RunActive(L, active_cranes, step) ==
    IF get_crane_group_geometry_raises(active_cranes)
    THEN [exc |-> "ZeroDivisionError", results |-> DefaultCriticalResults]
    ELSE RunFromGeometry(L, active_cranes, get_crane_group_geometry(active_cranes), step)

run_moving_load_analysis(L, cs, step, count) == RunActive(L, ActiveCranes(cs, count), step)

---------------------------------------------------------------------------
(* run_moving_load_analysis as a state machine: the call, the stepping     *)
(* loop one iteration at a time, and the extraction of the critical values.*)

\* no Section is under design
SecIdle ==
    /\ sec = DefaultSection
    /\ sec_prev = DefaultSection
    /\ sec_ops = <<>>
    /\ sec_exc = "none"

\* no design check is under way
ChkIdle ==
    /\ chk_in = [sec |-> DefaultSection]
    /\ chk_name = "none"
    /\ chk_out = [status |-> "none"]
    /\ chk_exc = "none"

\* st.session_state of a new session: no key
NewSessionState == [k \in {} |-> FALSE]

\* no session of the script is followed
UiIdle ==
    /\ ui_session = NewSessionState
    /\ ui_run_design = FALSE
    /\ ui_widgets = [status |-> "none"]
    /\ ui_executed = <<>>
    /\ ui_results = DefaultCriticalResults
    /\ ui_reruns = 0

Init ==
    /\ beam_span \in Spans
    /\ cranes \in CraneLists
    /\ step_size \in StepSizes
    /\ num_cranes_on_beam \in CraneCounts
    /\ pc = "call"
    /\ rel_positions = <<>>
    /\ wheel_loads = <<>>
    /\ start_pos = Zero
    /\ end_pos = Zero
    /\ current_pos = Zero
    /\ all_results = <<>>
    /\ results = DefaultCriticalResults
    /\ exc = "none"
    /\ SecIdle
    /\ ChkIdle
    /\ UiIdle

\* lines 849-876: geometry assembly and travel limits
Enter ==
    /\ pc = "call"
    /\ LET active_cranes == ActiveCranes(cranes, num_cranes_on_beam)
       IN  IF get_crane_group_geometry_raises(active_cranes)
           THEN /\ pc' = "raised"
                /\ exc' = "ZeroDivisionError"
                /\ UNCHANGED <<rel_positions, wheel_loads, start_pos, end_pos,
                               current_pos, all_results, results>>
           ELSE LET geom == get_crane_group_geometry(active_cranes)
                    group_length == geom[3]
                    buffer_left == active_cranes[1].buffer_left
                    buffer_right == active_cranes[Len(active_cranes)].buffer_right
                    limit == RSub(RSub(beam_span, buffer_right), group_length)
                IN  /\ rel_positions' = geom[1]
                    /\ wheel_loads' = geom[2]
                    /\ exc' = exc
                    /\ all_results' = <<>>
                    /\ results' = DefaultCriticalResults
                    /\ IF geom[1] = <<>>
                       THEN /\ pc' = "done"
                            /\ UNCHANGED <<start_pos, end_pos, current_pos>>
                       ELSE /\ pc' = "sweep"
                            /\ start_pos' = buffer_left
                            /\ end_pos' = TravelEnd(limit, buffer_left)
                            /\ current_pos' = buffer_left
    /\ UNCHANGED <<beam_span, cranes, step_size, num_cranes_on_beam>>
    /\ UNCHANGED <<secVars, chkVars, uiVars>>

\* lines 877-880: one iteration of the stepping loop
Iterate ==
    /\ pc = "sweep"
    /\ LoopCondition(current_pos, end_pos)
    /\ IF analyze_single_position_raises(beam_span, rel_positions)
       THEN /\ pc' = "raised"
            /\ exc' = "ZeroDivisionError"
            /\ UNCHANGED <<current_pos, all_results>>
       ELSE IF Len(all_results) >= MaxResults
       THEN /\ pc' = "raised"
            /\ exc' = "MemoryError"
            /\ UNCHANGED <<current_pos, all_results>>
       ELSE /\ all_results' = Append(all_results,
                                     analyze_single_position(beam_span, current_pos,
                                                             rel_positions, wheel_loads))
            /\ current_pos' = RAdd(current_pos, step_size)
            /\ UNCHANGED <<pc, exc>>
    /\ UNCHANGED <<beam_span, cranes, step_size, num_cranes_on_beam, rel_positions,
                   wheel_loads, start_pos, end_pos, results>>
    /\ UNCHANGED <<secVars, chkVars, uiVars>>

\* lines 877, 882-920: the loop ends, the critical values are extracted
Extract ==
    /\ pc = "sweep"
    /\ ~LoopCondition(current_pos, end_pos)
    /\ results' = IF all_results # <<>> THEN ExtractCritical(all_results) ELSE results
    /\ pc' = "done"
    /\ UNCHANGED <<beam_span, cranes, step_size, num_cranes_on_beam, rel_positions,
                   wheel_loads, start_pos, end_pos, current_pos, all_results, exc>>
    /\ UNCHANGED <<secVars, chkVars, uiVars>>

Next == Enter \/ Iterate \/ Extract

Spec == Init /\ [][Next]_vars

---------------------------------------------------------------------------
(* Properties of the moving-load envelope engine.                          *)

\* the cranes the analysis was asked to place on the beam
Active == ActiveCranes(cranes, num_cranes_on_beam)

\* the travel range is of negative length: end < start before the clamp
Infeasible ==
    /\ Active # <<>>
    /\ RLt(RSub(RSub(beam_span, Active[Len(Active)].buffer_right),
                get_crane_group_geometry(Active)[3]),
           Active[1].buffer_left)

\* every moment and reaction of a CriticalResults is 0
ZeroValued(res) ==
    /\ res.M_max = Zero /\ res.M_max_R_A = Zero /\ res.M_max_R_B = Zero
    /\ res.R_A_max = Zero /\ res.R_A_max_moment = Zero /\ res.R_A_max_R_B = Zero
    /\ res.R_B_max = Zero /\ res.R_B_max_moment = Zero /\ res.R_B_max_R_A = Zero
    /\ res.R_A_min = Zero /\ res.R_B_min = Zero /\ res.V_max = Zero

\* v is the largest (smallest) value of the sequence
IsMaxOf(v, seq) == (\E i \in 1..Len(seq) : seq[i] = v) /\ \A i \in 1..Len(seq) : RLe(seq[i], v)
IsMinOf(v, seq) == (\E i \in 1..Len(seq) : seq[i] = v) /\ \A i \in 1..Len(seq) : RLe(v, seq[i])

\* the first index at which the sequence holds v
FirstIndexOf(v, seq) ==
    CHOOSE i \in 1..Len(seq) : seq[i] = v /\ \A j \in 1..(i - 1) : seq[j] # v

\* C1: in every load case recorded by the sweep the two reactions sum to the
\* total applied load, R_A + R_B = sum of the wheel loads of the active group.
C1_ReactionsSumToLoad ==
    \A i \in 1..Len(all_results) :
        RAdd(all_results[i].R_A, all_results[i].R_B) = RSum(all_results[i].wheel_loads)
        /\ all_results[i].wheel_loads = wheel_loads

C1_Witness ==
    /\ Len(all_results) >= 2
    /\ Len(Active) >= 2
    /\ RLt(Zero, RSum(wheel_loads))
    /\ RLt(Zero, beam_span)

\* C2: after a non-empty sweep M_max, R_A_max, R_B_max are the maxima and
\* R_A_min, R_B_min the minima over all_results, V_max = max(R_A_max, R_B_max),
\* and the fields reported with each extreme are those of one load case
\* attaining it.
C2_EnvelopeIsExtreme ==
    (pc = "done" /\ all_results # <<>>) =>
        LET rs == results.all_results
        IN  /\ rs = all_results
            /\ IsMaxOf(results.M_max, Field_M_max(rs))
            /\ IsMaxOf(results.R_A_max, Field_R_A(rs))
            /\ IsMaxOf(results.R_B_max, Field_R_B(rs))
            /\ IsMinOf(results.R_A_min, Field_R_A(rs))
            /\ IsMinOf(results.R_B_min, Field_R_B(rs))
            /\ results.V_max = RMax(results.R_A_max, results.R_B_max)
            /\ \E i \in 1..Len(rs) :
                  /\ rs[i].M_max = results.M_max
                  /\ rs[i].step_position = results.M_max_position
                  /\ rs[i].M_max_location = results.M_max_location
                  /\ rs[i].R_A = results.M_max_R_A
                  /\ rs[i].R_B = results.M_max_R_B
                  /\ rs[i].wheel_positions = results.M_max_wheel_positions
            /\ \E i \in 1..Len(rs) :
                  /\ rs[i].R_A = results.R_A_max
                  /\ rs[i].step_position = results.R_A_max_position
                  /\ rs[i].wheel_positions = results.R_A_max_wheel_positions
                  /\ rs[i].M_max = results.R_A_max_moment
                  /\ rs[i].R_B = results.R_A_max_R_B
            /\ \E i \in 1..Len(rs) :
                  /\ rs[i].R_B = results.R_B_max
                  /\ rs[i].step_position = results.R_B_max_position
                  /\ rs[i].wheel_positions = results.R_B_max_wheel_positions
                  /\ rs[i].M_max = results.R_B_max_moment
                  /\ rs[i].R_A = results.R_B_max_R_A

C2_Witness ==
    /\ pc = "done"
    /\ Len(all_results) >= 3
    /\ results.M_max_position # results.R_A_max_position
    /\ results.M_max_position # results.R_B_max_position
    /\ RLt(results.R_A_min, results.R_A_max)
    /\ RLt(results.R_B_min, results.R_B_max)

\* the candidate sections of one load case, wheel stations in order then midspan
CandidateMoments(r) ==
    Append(r.moments_at_wheels,
           MomentAt(RDiv(beam_span, R(2)), r.R_A, r.wheel_positions, r.wheel_loads))
CandidateLocations(r) == Append(r.wheel_positions, RDiv(beam_span, R(2)))

\* C3: among the positions attaining the same extreme the reported case is the
\* first in sweep order, the smallest first-wheel position; within one position
\* M_max_location is the first candidate section (wheels in order, then
\* midspan) giving the largest moment.
C3_TiesFirstOccurrence ==
    /\ (pc = "done" /\ all_results # <<>>) =>
          LET rs == all_results
              iM == FirstIndexOf(results.M_max, Field_M_max(rs))
              iA == FirstIndexOf(results.R_A_max, Field_R_A(rs))
              iB == FirstIndexOf(results.R_B_max, Field_R_B(rs))
          IN  /\ results.M_max_position = rs[iM].step_position
              /\ results.M_max_location = rs[iM].M_max_location
              /\ results.R_A_max_position = rs[iA].step_position
              /\ results.R_B_max_position = rs[iB].step_position
              /\ \A j \in 1..Len(rs) :
                    /\ rs[j].M_max = results.M_max
                          => RLe(results.M_max_position, rs[j].step_position)
                    /\ rs[j].R_A = results.R_A_max
                          => RLe(results.R_A_max_position, rs[j].step_position)
                    /\ rs[j].R_B = results.R_B_max
                          => RLe(results.R_B_max_position, rs[j].step_position)
    /\ pc = "done" =>
          \A i \in 1..Len(all_results) :
              LET r == all_results[i]
              IN  r.M_max_location =
                      CandidateLocations(r)[FirstIndexOf(r.M_max, CandidateMoments(r))]

\* a tie of the largest moment between two positions, and in one position a tie
\* between two wheel stations
C3_Witness ==
    /\ pc = "done"
    /\ RLt(Zero, results.M_max)
    /\ \E i, j \in 1..Len(all_results) :
          /\ i < j
          /\ all_results[i].M_max = results.M_max
          /\ all_results[j].M_max = results.M_max
    /\ \E i \in 1..Len(all_results) :
          \E k1, k2 \in 1..Len(all_results[i].moments_at_wheels) :
              /\ k1 < k2
              /\ all_results[i].moments_at_wheels[k1] = all_results[i].M_max
              /\ all_results[i].moments_at_wheels[k2] = all_results[i].M_max
              /\ all_results[i].wheel_positions[k1] # all_results[i].wheel_positions[k2]

\* the wheels crane i of the group has, and the index of its first wheel
WheelCount(c) == Len(get_wheel_positions_relative(c))
RECURSIVE FirstWheel(_, _)
FirstWheel(cs, i) == IF i = 1 THEN 1 ELSE FirstWheel(cs, i - 1) + WheelCount(cs[i - 1])
LastWheel(cs, i) == FirstWheel(cs, i) + WheelCount(cs[i]) - 1

\* C4: in the packed geometry the distance from the last wheel of crane i to
\* the first wheel of crane i+1 is crane_i.buffer_right + crane_{i+1}.buffer_left.
C4_MinimumClearance ==
    rel_positions # <<>> =>
        \A i \in 1..(Len(Active) - 1) :
            RSub(rel_positions[FirstWheel(Active, i + 1)], rel_positions[LastWheel(Active, i)])
                = RAdd(Active[i].buffer_right, Active[i + 1].buffer_left)

C4_Witness ==
    /\ rel_positions # <<>>
    /\ Len(Active) = 2
    /\ Active[1].num_wheels = 4
    /\ Active[1].wheel_spacing_23 = Zero
    /\ Active[1].buffer_left # Active[2].buffer_left

\* C5: with an empty crane list or a crane count of 0 the analysis returns,
\* without raising, a CriticalResults of zeros with an empty all_results.
C5_NoActiveCranes ==
    (cranes = <<>> \/ num_cranes_on_beam = <<0>>) =>
        /\ pc \in {"call", "done"}
        /\ pc = "done" =>
              /\ ZeroValued(results)
              /\ results.M_max_position = Zero /\ results.M_max_location = Zero
              /\ results.R_A_max_position = Zero /\ results.R_B_max_position = Zero
              /\ results.all_results = <<>>
              /\ all_results = <<>>

C5_Witness == pc = "done" /\ cranes # <<>> /\ num_cranes_on_beam = <<0>>

C7_SweepTerminates == exc # "MemoryError"

\* the capacity MaxResults is reached by no sweep whose step is positive
PositiveStepSweepsFit == RLt(Zero, step_size) => Len(all_results) < MaxResults

\* C10: with a beam span of 0 and at least one active crane the analysis does
\* not raise a division-by-zero exception; it returns a CriticalResults.
C10_ZeroSpanReturns == (beam_span = Zero /\ Active # <<>>) => pc # "raised"

---------------------------------------------------------------------------
(* Section derivation as a state machine: a Section is constructed, then   *)
(* calc_props is called on it, and a cap channel may be attached, as the   *)
(* input surface does.                                                     *)

MaxCalls == 3

\* the partly updated Section calc_props leaves behind when it raises
calc_props_partial(s0) ==
    IF s0.sec_type = "built_up" THEN BuiltUpPartial(BuiltUpGeometry(s0))
    ELSE HotRolledPartial(HotRolledCap(HotRolledDefaults(s0)))

\* a rolled shape as the input surface constructs it from its table row
RolledFromTable ==
    [DefaultSection EXCEPT !.d = R(10), !.bf = R(4), !.tf = One, !.tw = One,
                           !.A = R(16), !.Ix = R(205), !.Iy = R(11), !.Sx = R(41),
                           !.Zx = Rat(4592, 100), !.mass = Rat(1256, 10000),
                           !.hw = R(8), !.bf_top = R(4), !.tf_top = One,
                           !.bf_bot = R(4), !.tf_bot = One]

\* a rolled shape given by its dimensions only
RolledFromDimensions ==
    [DefaultSection EXCEPT !.d = R(10), !.bf = R(4), !.tf = One, !.tw = One]

\* a rolled shape given by its dimensions and its tabulated A, Ix, Iy, Sx
RolledWithProperties ==
    [RolledFromDimensions EXCEPT !.A = R(16), !.Ix = R(205), !.Iy = R(11), !.Sx = R(41)]

\* a plate girder as the input surface constructs it
GirderFromSurface ==
    [DefaultSection EXCEPT !.sec_type = "built_up", !.d = R(10), !.tw = One, !.hw = R(7),
                           !.bf_top = R(4), !.tf_top = R(2), !.bf_bot = R(6),
                           !.tf_bot = One]

\* a doubly symmetric plate girder given by bf and tf
GirderSymmetric ==
    [DefaultSection EXCEPT !.sec_type = "built_up", !.d = R(10), !.bf = R(4), !.tf = One,
                           !.tw = One]

\* Section(sec_type='built_up'): no dimension given
GirderEmpty == [DefaultSection EXCEPT !.sec_type = "built_up"]

\* the cap channels: two rows of the channel table
CapChannels ==
    { [A |-> R(4), Ix |-> R(2), Iy |-> R(5), d |-> R(2), cy |-> One],
      [A |-> R(2), Ix |-> One, Iy |-> R(3), d |-> R(2), cy |-> One] }

\* lines 2757-2763: the cap fields set from the channel table row
WithCap(s, c) ==
    [s EXCEPT !.has_cap = TRUE, !.cap_A = c.A, !.cap_Ix = c.Ix, !.cap_Iy = c.Iy,
              !.cap_d = c.d, !.cap_cy = c.cy]

BareSections ==
    {RolledFromTable, RolledFromDimensions, RolledWithProperties,
     GirderFromSurface, GirderSymmetric, GirderEmpty}

\* the Sections as constructed: without a cap, or with the cap given at construction
SectionInputs ==
    BareSections \cup {WithCap(s, c) : s \in BareSections \ {GirderEmpty}, c \in CapChannels}

\* the envelope analysis is not running
EnvIdle ==
    /\ beam_span = Zero
    /\ cranes = <<>>
    /\ step_size = One
    /\ num_cranes_on_beam = <<>>
    /\ pc = "idle"
    /\ rel_positions = <<>>
    /\ wheel_loads = <<>>
    /\ start_pos = Zero
    /\ end_pos = Zero
    /\ current_pos = Zero
    /\ all_results = <<>>
    /\ results = DefaultCriticalResults
    /\ exc = "none"

SecInit ==
    /\ EnvIdle
    /\ ChkIdle
    /\ UiIdle
    /\ sec \in SectionInputs
    /\ sec_prev = sec
    /\ sec_ops = <<>>
    /\ sec_exc = "none"

\* the call of calc_props on s, recorded as operation op
Derive(s, op) ==
    /\ sec_prev' = sec
    /\ sec_ops' = Append(sec_ops, op)
    /\ IF calc_props_raises(s)
       THEN /\ sec' = calc_props_partial(s)
            /\ sec_exc' = "ZeroDivisionError"
       ELSE /\ sec' = calc_props(s)
            /\ sec_exc' = "none"

\* sec.calc_props()
CalcProps ==
    /\ sec_exc = "none"
    /\ Len(sec_ops) < MaxCalls
    /\ Derive(sec, "calc_props")
    /\ UNCHANGED <<envVars, chkVars, uiVars>>

\* lines 2757-2764: the cap channel is attached and calc_props is called again
AddCap ==
    /\ sec_exc = "none"
    /\ Len(sec_ops) < MaxCalls
    /\ \E c \in CapChannels : Derive(WithCap(sec, c), "add_cap")
    /\ UNCHANGED <<envVars, chkVars, uiVars>>

SecNext == CalcProps \/ AddCap

SecSpec == SecInit /\ [][SecNext]_vars

---------------------------------------------------------------------------
(* Properties of the Section derivation.                                   *)

\* the derived fields of a Section
DerivedFields(s) ==
    <<s.A, s.Ix, s.Iy, s.Sx, s.Sy, s.Zx, s.rx, s.ry, s.rts, s.J, s.Cw, s.ho, s.y_bar,
      s.mass>>

\* the last operation was a calc_props call on a Section that calc_props had
\* already derived, with no input changed in between, and neither call raised
SecondCall ==
    /\ Len(sec_ops) >= 2
    /\ sec_ops[Len(sec_ops)] = "calc_props"
    /\ sec_exc = "none"

\* C8: a second calc_props call on the Section the first call produced leaves
\* every derived field (A, Ix, Iy, Sx, Sy, Zx, rx, ry, rts, J, Cw, ho, y_bar,
\* mass) at its value after the first call, for hot-rolled and built-up
\* sections, with or without a cap channel.
C8_CalcPropsIdempotent == SecondCall => DerivedFields(sec) = DerivedFields(sec_prev)

\* the part of C8 the code keeps: built-up sections, and hot-rolled sections
\* without a cap channel
SecondCallKeepsUncapped ==
    (SecondCall /\ (sec.sec_type = "built_up" \/ ~CapPresent(sec)))
        => DerivedFields(sec) = DerivedFields(sec_prev)

\* a hot-rolled section with a cap channel grows at every call
SecondCallAccumulatesCap ==
    (SecondCall /\ sec.sec_type = "hot_rolled" /\ CapPresent(sec))
        => sec.A = RAdd(sec_prev.A, sec.cap_A)

---------------------------------------------------------------------------
(* The design checks as a state machine: the arguments are chosen, then    *)
(* one check is called and returns its dictionary or raises.               *)

\* a Section as the checks receive it: derived by calc_props
Derived(s) == IF calc_props_raises(s) THEN calc_props_partial(s) ELSE calc_props(s)

\* a web slender enough for the buckling branches of the shear check
RolledThinWeb ==
    [DefaultSection EXCEPT !.d = R(32), !.bf = R(4), !.tf = One, !.tw = Rat(1, 4)]

\* the Sections checked: derived ones, and ones with tw = 0, d = 0 or Ix = 0
\* a rolled shape thick enough for a 6 mm fillet weld
RolledThick ==
    [DefaultSection EXCEPT !.d = R(100), !.bf = R(50), !.tf = R(8), !.tw = R(8),
                           !.A = R(1472), !.Ix = R(2000000), !.Iy = R(170000),
                           !.Sx = R(40000), !.Zx = R(46000), !.mass = Rat(1156, 100),
                           !.hw = R(84), !.bf_top = R(50), !.tf_top = R(8),
                           !.bf_bot = R(50), !.tf_bot = R(8)]

CheckedSections ==
    { Derived(RolledFromTable), Derived(GirderFromSurface), Derived(GirderSymmetric),
      Derived(RolledThinWeb), RolledThick,
      Derived([RolledFromTable EXCEPT !.tw = Zero]),
      Derived([GirderSymmetric EXCEPT !.tw = Zero]),
      [RolledFromDimensions EXCEPT !.tw = Zero],
      Derived([RolledFromTable EXCEPT !.d = Zero, !.hw = Zero]),
      [RolledFromDimensions EXCEPT !.d = Zero],
      RolledFromDimensions,
      RolledWithProperties,
      DefaultSection }

YieldStresses == {R(320), R(345)}

\* the reaction or shear applied, kN
AppliedLoads == {One, R(50)}

\* the bearing lengths, mm
BearingLengths == {One, R(2), R(5)}

\* has_stiff, stiff_spa, use_tfa
StiffenerOptions ==
    { [has_stiff |-> FALSE, stiff_spa |-> Zero, use_tfa |-> FALSE],
      [has_stiff |-> TRUE, stiff_spa |-> R(60), use_tfa |-> FALSE],
      [has_stiff |-> TRUE, stiff_spa |-> R(60), use_tfa |-> TRUE] }

WeldInputs ==
    { DefaultWeldData,
      [DefaultWeldData EXCEPT !.weld_size = One],
      [DefaultWeldData EXCEPT !.weld_type = "CJP"],
      [DefaultWeldData EXCEPT !.weld_size = One, !.is_continuous = FALSE,
                              !.intermittent_length = R(40),
                              !.intermittent_spacing = R(100)],
      [DefaultWeldData EXCEPT !.is_continuous = FALSE, !.intermittent_length = R(50),
                              !.intermittent_spacing = R(200)],
      [DefaultWeldData EXCEPT !.is_continuous = FALSE] }

\* StiffenerData as the input surface fills it: no stiffener, a bearing pair
\* that passes, a slender pair, and a pair narrower than the 25 mm clip;
\* transverse stiffeners at a close and a wide spacing and at no spacing;
\* a longitudinal stiffener in and out of the position range
StiffenerInputs ==
    { DefaultStiffenerData,
      [DefaultStiffenerData EXCEPT !.has_bearing = TRUE, !.bearing_t = R(3),
                                   !.bearing_b = R(30)],
      [DefaultStiffenerData EXCEPT !.has_bearing = TRUE, !.bearing_t = One,
                                   !.bearing_b = R(30)],
      [DefaultStiffenerData EXCEPT !.has_bearing = TRUE, !.bearing_t = R(3),
                                   !.bearing_b = R(20)],
      [DefaultStiffenerData EXCEPT !.has_transverse = TRUE, !.trans_spacing = R(4),
                                   !.trans_t = R(3), !.trans_b = R(30)],
      [DefaultStiffenerData EXCEPT !.has_transverse = TRUE, !.trans_spacing = R(20),
                                   !.trans_t = One, !.trans_b = R(30)],
      [DefaultStiffenerData EXCEPT !.has_transverse = TRUE],
      [DefaultStiffenerData EXCEPT !.has_longitudinal = TRUE, !.long_t = R(3),
                                   !.long_b = R(30)],
      [DefaultStiffenerData EXCEPT !.has_longitudinal = TRUE, !.long_t = R(3),
                                   !.long_b = R(30), !.long_position = Rat(5, 10)] }

\* M_range (kN-m), N_cycles and the fatigue category
FatigueInputs ==
    { [M_range |-> Rat(1, 1000), N_cycles |-> 2000000, category |-> "E"],
      [M_range |-> One, N_cycles |-> 500000, category |-> "E'"],
      [M_range |-> Rat(1, 1000), N_cycles |-> 0, category |-> "E"] }

\* the unbraced length Lb, mm
UnbracedLengths == {R(10), R(100), R(1000)}

\* beam_span, cranes, step_size and num_cranes_on_beam of an envelope analysis
AnalysisInputs ==
    { [beam_span |-> L, cranes |-> cs, step_size |-> One, num_cranes_on_beam |-> n] :
        L \in {Zero, R(8)},
        cs \in {<<CraneTwoWheel>>, <<CraneFourExplicit, CraneTwoWheel>>},
        n \in {<<>>, <<1>>} }

\* a section, a yield stress and a load, with every other argument at its
\* first value
BaseInputs ==
    { [sec |-> s, Fy |-> f, R |-> r, lb |-> One, at_support |-> TRUE,
       stiff |-> [has_stiff |-> FALSE, stiff_spa |-> Zero, use_tfa |-> FALSE],
       weld_data |-> DefaultWeldData, stiffener |-> DefaultStiffenerData,
       fatigue |-> [M_range |-> Rat(1, 1000), N_cycles |-> 2000000,
                    category |-> "E"],
       Lb |-> R(10),
       analysis |-> [beam_span |-> R(8), cranes |-> <<CraneTwoWheel>>,
                     step_size |-> One, num_cranes_on_beam |-> <<>>]] :
      s \in CheckedSections, f \in YieldStresses, r \in AppliedLoads }

\* the argument tuples: each group of arguments varies over its own values
CheckInputs ==
    UNION { { [b EXCEPT !.lb = l, !.at_support = a] :
                l \in BearingLengths, a \in BOOLEAN }
            \cup { [b EXCEPT !.stiff = o] : o \in StiffenerOptions }
            \cup { [b EXCEPT !.weld_data = w] : w \in WeldInputs }
            \cup { [b EXCEPT !.stiffener = d, !.at_support = a] :
                     d \in StiffenerInputs, a \in BOOLEAN }
            \cup { [b EXCEPT !.fatigue = f] : f \in FatigueInputs }
            \cup { [b EXCEPT !.Lb = l] : l \in UnbracedLengths }
            \cup { [b EXCEPT !.analysis = a] : a \in AnalysisInputs } :
            b \in BaseInputs }

ChkInit ==
    /\ EnvIdle
    /\ SecIdle
    /\ UiIdle
    /\ chk_in \in CheckInputs
    /\ chk_name = "none"
    /\ chk_out = [status |-> "none"]
    /\ chk_exc = "none"

\* the arguments with the fallback web height stored into the Section by the
\* stiffener checks
ArgumentsAfter_WebHeightStored(name, args) ==
    IF name \in {"check_transverse_stiffener", "check_bearing_stiffener",
                 "check_longitudinal_stiffener"}
    THEN [args EXCEPT !.sec.hw = StiffenerWebHeight(args.sec)]
    ELSE args

\* the objects passed to function `name`, as they are when it has returned or
\* raised: the functions read the fields of sec, stiff, weld_data and of the
\* cranes, and they assign only to their local names and to the dictionary or
\* CriticalResults they build
ArgumentsAfter(name, args) == args

\* the call of function `name`: it raises, or it returns `out`
Call(name, raises, out) ==
    /\ chk_name' = name
    /\ IF raises
       THEN /\ chk_exc' = "ZeroDivisionError"
            /\ chk_out' = chk_out
       ELSE /\ chk_exc' = "none"
            /\ chk_out' = out
    /\ chk_in' = ArgumentsAfter(name, chk_in)
    /\ UNCHANGED <<envVars, secVars, uiVars>>

CheckCompactness ==
    /\ chk_name = "none"
    /\ Call("check_compactness",
            check_compactness_raises(chk_in.sec, chk_in.Fy),
            check_compactness(chk_in.sec, chk_in.Fy))

CalcShearStrength ==
    /\ chk_name = "none"
    /\ Call("calc_shear_strength",
            calc_shear_strength_raises(chk_in.sec, chk_in.Fy, chk_in.stiff.has_stiff,
                                       chk_in.stiff.stiff_spa, chk_in.stiff.use_tfa),
            calc_shear_strength(chk_in.sec, chk_in.Fy, chk_in.stiff.has_stiff,
                                chk_in.stiff.stiff_spa, chk_in.stiff.use_tfa))

CheckWebLocalYielding ==
    /\ chk_name = "none"
    /\ Call("check_web_local_yielding", FALSE,
            check_web_local_yielding(chk_in.sec, chk_in.Fy, chk_in.R, chk_in.lb,
                                     chk_in.at_support))

CheckWebCrippling ==
    /\ chk_name = "none"
    /\ Call("check_web_crippling",
            check_web_crippling_raises(chk_in.sec, chk_in.Fy, chk_in.R, chk_in.lb,
                                       chk_in.at_support),
            check_web_crippling(chk_in.sec, chk_in.Fy, chk_in.R, chk_in.lb,
                                chk_in.at_support))

CheckWeld ==
    /\ chk_name = "none"
    /\ Call("check_weld_for_built_up_section",
            check_weld_for_built_up_section_raises(chk_in.sec, chk_in.R, Zero,
                                                   chk_in.weld_data, chk_in.Fy),
            check_weld_for_built_up_section(chk_in.sec, chk_in.R, Zero,
                                            chk_in.weld_data, chk_in.Fy))

CheckFatigue ==
    /\ chk_name = "none"
    /\ Call("check_fatigue",
            check_fatigue_raises(chk_in.sec, chk_in.fatigue.M_range,
                                 chk_in.fatigue.N_cycles, chk_in.fatigue.category),
            check_fatigue(chk_in.sec, chk_in.fatigue.M_range,
                          chk_in.fatigue.N_cycles, chk_in.fatigue.category))

CheckBearingStiffener ==
    /\ chk_name = "none"
    /\ Call("check_bearing_stiffener",
            check_bearing_stiffener_raises(chk_in.sec, chk_in.Fy, chk_in.R,
                                           chk_in.stiffener, chk_in.at_support),
            check_bearing_stiffener(chk_in.sec, chk_in.Fy, chk_in.R,
                                    chk_in.stiffener, chk_in.at_support))

CalcLpLr ==
    /\ chk_name = "none"
    /\ Call("calc_Lp_Lr", calc_Lp_Lr_raises(chk_in.sec, chk_in.Fy),
            calc_Lp_Lr(chk_in.sec, chk_in.Fy))

\* cmp = check_compactness(sec, Fy); flex = calc_flexural_strength(sec, Fy, Lb, cmp)
CalcFlexuralStrength ==
    /\ chk_name = "none"
    /\ Call("calc_flexural_strength",
            calc_flexural_strength_raises(chk_in.sec, chk_in.Fy, chk_in.Lb,
                                          check_compactness(chk_in.sec, chk_in.Fy)),
            calc_flexural_strength(chk_in.sec, chk_in.Fy, chk_in.Lb,
                                   check_compactness(chk_in.sec, chk_in.Fy)))

CheckTransverseStiffener ==
    /\ chk_name = "none"
    /\ Call("check_transverse_stiffener",
            check_transverse_stiffener_raises(chk_in.sec, chk_in.Fy, chk_in.stiffener),
            check_transverse_stiffener(chk_in.sec, chk_in.Fy, chk_in.stiffener))

CheckLongitudinalStiffener ==
    /\ chk_name = "none"
    /\ Call("check_longitudinal_stiffener",
            check_longitudinal_stiffener_raises(chk_in.sec, chk_in.Fy, chk_in.stiffener),
            check_longitudinal_stiffener(chk_in.sec, chk_in.Fy, chk_in.stiffener))

\* results = run_moving_load_analysis(beam_span, cranes, step_size, n)
RunMovingLoadAnalysis ==
    /\ chk_name = "none"
    /\ Call("run_moving_load_analysis",
            run_moving_load_analysis(chk_in.analysis.beam_span, chk_in.analysis.cranes,
                                     chk_in.analysis.step_size,
                                     chk_in.analysis.num_cranes_on_beam).exc # "none",
            run_moving_load_analysis(chk_in.analysis.beam_span, chk_in.analysis.cranes,
                                     chk_in.analysis.step_size,
                                     chk_in.analysis.num_cranes_on_beam).results)

ChkNext ==
    \/ CheckCompactness
    \/ CalcShearStrength
    \/ CheckWebLocalYielding
    \/ CheckWebCrippling
    \/ CheckWeld
    \/ CheckFatigue
    \/ CheckBearingStiffener
    \/ CalcLpLr
    \/ CalcFlexuralStrength
    \/ CheckTransverseStiffener
    \/ CheckLongitudinalStiffener
    \/ RunMovingLoadAnalysis

ChkSpec == ChkInit /\ [][ChkNext]_vars

---------------------------------------------------------------------------
(* The flexural strength chain on sections of every flange and web class:  *)
(* check_compactness, calc_Lp_Lr and calc_flexural_strength.               *)

\* a flange between the Compact and the Slender limits of the flange
GirderWideFlange ==
    [DefaultSection EXCEPT !.sec_type = "built_up", !.d = R(10), !.bf = R(20), !.tf = One,
                           !.tw = One]

\* a web above the Noncompact limit of the web: a tabulated shape with its
\* torsion properties
RolledSlenderWeb ==
    [DefaultSection EXCEPT !.d = R(160), !.bf = R(30), !.tf = R(5), !.tw = One,
                           !.A = R(450), !.Ix = R(2080000), !.Iy = R(22500),
                           !.Sx = R(26000), !.Zx = R(30000), !.mass = Rat(35, 100),
                           !.J = R(2550), !.Cw = R(135000000), !.rts = R(8),
                           !.hw = R(150), !.bf_top = R(30), !.tf_top = R(5),
                           !.bf_bot = R(30), !.tf_bot = R(5)]

FlexSections ==
    { Derived(RolledFromTable), Derived(GirderFromSurface), Derived(RolledThinWeb),
      Derived(GirderWideFlange), Derived(RolledSlenderWeb) }

\* the unbraced lengths Lb, mm
FlexLengths == {R(10), R(100), R(300), R(1000), R(5000)}

FlexInputs == [sec : FlexSections, Fy : YieldStresses, Lb : FlexLengths]

FlexInit ==
    /\ EnvIdle
    /\ SecIdle
    /\ UiIdle
    /\ chk_in \in FlexInputs
    /\ chk_name = "none"
    /\ chk_out = [status |-> "none"]
    /\ chk_exc = "none"

FlexNext ==
    \/ CheckCompactness
    \/ CalcLpLr
    \/ CalcFlexuralStrength

FlexSpec == FlexInit /\ [][FlexNext]_vars

---------------------------------------------------------------------------
(* calc_shear_strength on stocky and slender webs, with and without        *)
(* stiffeners and tension field action; and the same call made with        *)
(* use_tfa = False and with use_tfa = True.                                *)

\* a web between the two slenderness thresholds at a stiffener spacing of 60
RolledMediumWeb ==
    [DefaultSection EXCEPT !.d = R(32), !.bf = R(4), !.tf = One, !.tw = Rat(2, 5)]

\* a web above the first threshold even at a stiffener spacing of 10
RolledVeryThinWeb ==
    [DefaultSection EXCEPT !.d = R(32), !.bf = R(4), !.tf = One, !.tw = Rat(1, 7)]

ShearSections ==
    { Derived(RolledFromTable), Derived(GirderFromSurface), Derived(RolledThinWeb),
      Derived(RolledMediumWeb), Derived(RolledVeryThinWeb), DefaultSection }

\* the stiffener spacings, mm: none, and a/h below 0.5, inside [0.5, 3] and
\* above 3 on a web 30 deep
ShearSpacings == {Zero, R(10), R(60), R(120)}

ShearInputs ==
    [sec : ShearSections, Fy : YieldStresses,
     stiff : [has_stiff : BOOLEAN, stiff_spa : ShearSpacings, use_tfa : BOOLEAN]]

ShearInit ==
    /\ EnvIdle
    /\ SecIdle
    /\ UiIdle
    /\ chk_in \in ShearInputs
    /\ chk_name = "none"
    /\ chk_out = [status |-> "none"]
    /\ chk_exc = "none"

\* calc_shear_strength with use_tfa = False and with use_tfa = True, the other
\* arguments as given
CalcShearStrengthTwice ==
    /\ chk_name = "none"
    /\ chk_name' = "calc_shear_strength twice"
    /\ IF \/ calc_shear_strength_raises(chk_in.sec, chk_in.Fy, chk_in.stiff.has_stiff,
                                        chk_in.stiff.stiff_spa, FALSE)
          \/ calc_shear_strength_raises(chk_in.sec, chk_in.Fy, chk_in.stiff.has_stiff,
                                        chk_in.stiff.stiff_spa, TRUE)
       THEN /\ chk_exc' = "ZeroDivisionError"
            /\ chk_out' = chk_out
       ELSE /\ chk_exc' = chk_exc
            /\ chk_out' = [base |-> calc_shear_strength(
                                        chk_in.sec, chk_in.Fy, chk_in.stiff.has_stiff,
                                        chk_in.stiff.stiff_spa, FALSE),
                           varied |-> calc_shear_strength(
                                          chk_in.sec, chk_in.Fy, chk_in.stiff.has_stiff,
                                          chk_in.stiff.stiff_spa, TRUE)]
    /\ UNCHANGED <<chk_in, envVars, secVars, uiVars>>

ShearNext == CalcShearStrength \/ CalcShearStrengthTwice

ShearSpec == ShearInit /\ [][ShearNext]_vars

---------------------------------------------------------------------------
(* The analysis and the crane load methods, each called on an argument     *)
(* list and on the same list with one crane parameter changed.             *)

\* crane.impact_v = v for the crane at index k of the list
WithImpact(cs, k, v) == [cs EXCEPT ![k].impact_v = v]

\* the vertical impact factors a crane is raised to
RaisedImpacts == {Rat(50, 100), R(1)}

\* crane.bridge_weight = w for the crane at index k of the list
WithBridgeWeight(cs, k, w) == [cs EXCEPT ![k].bridge_weight = w]

\* a bridge weight (tonnes) above that of every crane of the catalog
HeavierBridge == R(12)

\* the positive step sizes the comparison runs with
PositiveSteps == {R(1), Rat(3, 2)}

\* the arguments of the two calls: a span, a crane list, a step, a crane count,
\* the crane whose parameter changes and the changed value
PairInputs ==
    { [beam_span |-> L, cranes |-> cs, step_size |-> st, num_cranes_on_beam |-> n,
       index |-> k, impact_v |-> v, bridge_weight |-> HeavierBridge] :
        L \in Spans, cs \in CraneLists, st \in PositiveSteps, n \in CraneCounts,
        k \in 1..MaxCranes, v \in RaisedImpacts }

PairInit ==
    /\ EnvIdle
    /\ SecIdle
    /\ UiIdle
    /\ chk_in \in {p \in PairInputs : p.index <= Len(p.cranes)}
    /\ chk_name = "none"
    /\ chk_out = [status |-> "none"]
    /\ chk_exc = "none"

\* the analysis of the crane list, and of the list with crane `index` at the
\* raised impact factor
RunAnalysisTwice ==
    /\ chk_name = "none"
    /\ chk_name' = "run_moving_load_analysis"
    /\ chk_out' = [base |-> run_moving_load_analysis(chk_in.beam_span, chk_in.cranes,
                                                     chk_in.step_size,
                                                     chk_in.num_cranes_on_beam),
                   varied |-> run_moving_load_analysis(
                                  chk_in.beam_span,
                                  WithImpact(chk_in.cranes, chk_in.index, chk_in.impact_v),
                                  chk_in.step_size, chk_in.num_cranes_on_beam)]
    /\ UNCHANGED <<chk_in, chk_exc, envVars, secVars, uiVars>>

\* the horizontal forces of a crane
CraneForces(c) ==
    [lateral |-> get_lateral_load_per_wheel(c),
     longitudinal |-> get_longitudinal_force(c)]

\* get_lateral_load_per_wheel and get_longitudinal_force of crane `index`, and
\* of the same crane with the other bridge weight
CraneForcesTwice ==
    /\ chk_name = "none"
    /\ chk_name' = "crane forces"
    /\ IF \/ get_lateral_load_per_wheel_raises(chk_in.cranes[chk_in.index])
          \/ calc_wheel_loads_raises(chk_in.cranes[chk_in.index])
       THEN /\ chk_exc' = "ZeroDivisionError"
            /\ chk_out' = chk_out
       ELSE /\ chk_exc' = chk_exc
            /\ chk_out' = [base |-> CraneForces(chk_in.cranes[chk_in.index]),
                           varied |-> CraneForces(WithBridgeWeight(
                                          chk_in.cranes, chk_in.index,
                                          chk_in.bridge_weight)[chk_in.index])]
    /\ UNCHANGED <<chk_in, envVars, secVars, uiVars>>

PairNext == RunAnalysisTwice \/ CraneForcesTwice

PairSpec == PairInit /\ [][PairNext]_vars

---------------------------------------------------------------------------
(* The wheel offsets of one crane: get_wheel_positions_relative and         *)
(* get_total_wheel_base called on a CraneData.                              *)

\* the wheels per rail: the two the input surface offers and the counts the
\* generic branch serves
WheelCounts == 1..5

\* wheel_base, the distance from the first wheel to the last (m)
WheelBases == {Zero, Rat(1, 2), R(3)}

\* the values of wheel_spacing_12, wheel_spacing_23 and wheel_spacing_34 (m)
WheelSpacings == {R(-1), Zero, Rat(3, 10), R(1)}

\* the cranes the methods are called on; a crane of one wheel has no wheel base
WheelGeometries ==
    { c \in { [DefaultCrane EXCEPT !.num_wheels = n, !.wheel_base = wb,
                                   !.wheel_spacing_12 = d12, !.wheel_spacing_23 = d23,
                                   !.wheel_spacing_34 = d34] :
                n \in WheelCounts, wb \in WheelBases, d12 \in WheelSpacings,
                d23 \in WheelSpacings, d34 \in WheelSpacings } :
        c.num_wheels = 1 => c.wheel_base = Zero }

WheelInit ==
    /\ EnvIdle
    /\ SecIdle
    /\ UiIdle
    /\ chk_in \in WheelGeometries
    /\ chk_name = "none"
    /\ chk_out = [status |-> "none"]
    /\ chk_exc = "none"

GetWheelPositionsRelative ==
    /\ chk_name = "none"
    /\ chk_name' = "get_wheel_positions_relative"
    /\ chk_out' = [positions |-> get_wheel_positions_relative(chk_in)]
    /\ UNCHANGED <<chk_in, chk_exc, envVars, secVars, uiVars>>

GetTotalWheelBase ==
    /\ chk_name = "none"
    /\ chk_name' = "get_total_wheel_base"
    /\ chk_out' = [positions |-> get_wheel_positions_relative(chk_in),
                   total |-> get_total_wheel_base(chk_in)]
    /\ UNCHANGED <<chk_in, chk_exc, envVars, secVars, uiVars>>

WheelNext == GetWheelPositionsRelative \/ GetTotalWheelBase

WheelSpec == WheelInit /\ [][WheelNext]_vars

---------------------------------------------------------------------------
(* The Streamlit script.  Every interaction with a widget reruns main from *)
(* the top; st.session_state lives across the reruns of a session.  A      *)
(* rerun reads the widgets, passes the RUN DESIGN gate and either shows    *)
(* the section preview or runs the envelope analysis and the checks.       *)

\* the reruns of one session that are followed
MaxReruns == 4

\* the sidebar values a rerun reads
UiWidgets ==
    [beam_span : {R(8)}, step_size : PositiveSteps, num_cranes : {1, 2},
     sec_type : {"Hot Rolled", "Built-up Plate Girder"}, check_weld : {TRUE},
     check_fatigue_enabled : BOOLEAN]

\* lines 2851-2912: one CraneData per crane of the sidebar
UiCranes(n) == [i \in 1..n |-> CraneTwoWheel]

\* the gate following the button alone: nothing kept from earlier reruns
SessionAfterGate_ClickOnly(session, run_design) == [design_completed |-> run_design]

\* lines 2942-2946: the key is created False and set True by a click
SessionAfterGate(session, run_design) ==
    IF run_design THEN [design_completed |-> TRUE]
    ELSE IF "design_completed" \in DOMAIN session THEN session
    ELSE [design_completed |-> FALSE]

\* lines 2792-2794 and 2997-2999: the weld check runs for a built-up section
\* whose weld design is ticked
UiWeldCalls(w) ==
    IF w.sec_type = "Built-up Plate Girder" /\ w.check_weld
    THEN <<"check_weld_for_built_up_section">> ELSE <<>>

\* lines 2985-2988
UiFatigueCalls(w) == IF w.check_fatigue_enabled THEN <<"check_fatigue">> ELSE <<>>

\* lines 2965-2999: the analysis and the checks of a design run, in call order
DesignCalls(w) ==
    <<"run_moving_load_analysis", "check_compactness", "calc_flexural_strength",
      "calc_shear_strength", "check_web_local_yielding", "check_web_crippling">>
    \o UiFatigueCalls(w)
    \o <<"check_transverse_stiffener", "check_bearing_stiffener",
         "check_longitudinal_stiffener">>
    \o UiWeldCalls(w)

\* lines 2948-2962: the preview branch draws the section and returns
PreviewCalls == <<"plot_section">>

UiInit ==
    /\ EnvIdle
    /\ SecIdle
    /\ ChkIdle
    /\ UiIdle

\* one run of main: the widgets are read, the button reports whether this rerun
\* comes from a click on it, the gate is passed, and the preview or the design
\* is executed
Rerun ==
    /\ ui_reruns < MaxReruns
    /\ \E w \in UiWidgets, run_design \in BOOLEAN :
         /\ ui_widgets' = w
         /\ ui_run_design' = run_design
         /\ ui_session' = SessionAfterGate(ui_session, run_design)
         /\ IF ~SessionAfterGate(ui_session, run_design).design_completed
            THEN /\ ui_executed' = PreviewCalls
                 /\ ui_results' = DefaultCriticalResults
            ELSE /\ ui_executed' = DesignCalls(w)
                 /\ ui_results' = run_moving_load_analysis(
                                      w.beam_span, UiCranes(w.num_cranes),
                                      w.step_size, <<w.num_cranes>>).results
    /\ ui_reruns' = ui_reruns + 1
    /\ UNCHANGED <<envVars, secVars, chkVars>>

UiNext == Rerun

UiSpec == UiInit /\ [][UiNext]_vars

---------------------------------------------------------------------------
(* One design run of main past the RUN DESIGN gate: the envelope analysis, *)
(* the design values, every check, the ratios and the verdict shown in the *)
(* summary and in the report.                                              *)

\* CRANE_CLASSES['C'], the class the sidebar preselects
CraneClassC == [max_cycles |-> 2000000, defl_limit |-> 600]

\* a crane with a direct wheel load of 0.01 kN
CraneLight == [CraneTwoWheel EXCEPT !.direct_max_wheel_load = Rat(1, 100)]

\* a crane with a direct wheel load of 1 kN
CraneMedium == [CraneTwoWheel EXCEPT !.direct_max_wheel_load = One]

\* a tabulated shape of narrow flanges
RolledNarrow == [RolledThick EXCEPT !.Iy = R(1000), !.mass = R(10)]

\* a plate girder of 4 mm plates
GirderNarrow ==
    [DefaultSection EXCEPT !.sec_type = "built_up", !.d = R(28), !.bf = R(15), !.tf = R(4),
                           !.tw = R(4)]

\* stiffeners: none; a bearing pair that passes and one that is too slender; a
\* longitudinal stiffener in and out of the position range
DesignStiffeners ==
    { DefaultStiffenerData,
      [DefaultStiffenerData EXCEPT !.has_bearing = TRUE, !.bearing_t = R(3),
                                   !.bearing_b = R(30)],
      [DefaultStiffenerData EXCEPT !.has_bearing = TRUE, !.bearing_t = One,
                                   !.bearing_b = R(30)],
      [DefaultStiffenerData EXCEPT !.has_longitudinal = TRUE, !.long_t = R(3),
                                   !.long_b = R(30)],
      [DefaultStiffenerData EXCEPT !.has_longitudinal = TRUE, !.long_t = R(3),
                                   !.long_b = R(30), !.long_position = Rat(5, 10)] }

\* weld_data: None (<<>>), or the WeldDesignData of the sidebar
DesignWelds ==
    { <<>>, <<DefaultWeldData>>, <<[DefaultWeldData EXCEPT !.weld_size = One]>>,
      <<[DefaultWeldData EXCEPT !.is_continuous = FALSE, !.intermittent_length = R(50),
                                !.intermittent_spacing = R(200)]>> }

\* the deflection calc_deflection returns, mm: below and above L/600 of 4 m
Deflections == {One, R(20)}

\* what the sidebar holds when the design runs; delta stands for the value of
\* calc_deflection
DesignInputs ==
    [sec : {Derived(RolledNarrow), Derived(GirderNarrow)}, Fy : {R(345)},
     Lb : {Rat(1, 2)}, lb_bearing : {R(50)}, beam_span : {R(4)},
     cranes : {<<CraneLight>>, <<CraneMedium>>},
     step_size : {One}, stiff : DesignStiffeners, weld_data : DesignWelds,
     check_fatigue_enabled : BOOLEAN, fatigue_cat : {"E"}, delta : Deflections]

DesignInit ==
    /\ EnvIdle
    /\ SecIdle
    /\ UiIdle
    /\ chk_in \in DesignInputs
    /\ chk_name = "none"
    /\ chk_out = [status |-> "none"]
    /\ chk_exc = "none"

\* lines 2965-2976: M_design and V_design from the envelope and the self-weight
DesignValues(i, res) ==
    [results |-> res,
     M_design |-> RAdd(res.M_max,
                       RDiv(RMul(RDiv(RMul(i.sec.mass, GRAVITY), R(1000)),
                                 RSq(i.beam_span)), R(8))),
     V_design |-> RAdd(res.V_max,
                       RDiv(RMul(RDiv(RMul(i.sec.mass, GRAVITY), R(1000)),
                                 i.beam_span), R(2)))]

\* the weld check runs for a built-up section with weld data
DesignWeldRuns(i) == i.weld_data # <<>> /\ i.sec.sec_type = "built_up"

\* a check of the run divides by zero
DesignRaises(i, v) ==
    \/ check_compactness_raises(i.sec, i.Fy)
    \/ calc_flexural_strength_raises(i.sec, i.Fy, RMul(i.Lb, R(1000)),
                                     check_compactness(i.sec, i.Fy))
    \/ calc_shear_strength_raises(i.sec, i.Fy, i.stiff.has_transverse,
                                  i.stiff.trans_spacing, FALSE)
    \/ check_web_crippling_raises(i.sec, i.Fy, v.results.R_A_max, i.lb_bearing, TRUE)
    \/ (i.check_fatigue_enabled
        /\ check_fatigue_raises(i.sec, v.results.M_max, CraneClassC.max_cycles,
                                i.fatigue_cat))
    \/ check_transverse_stiffener_raises(i.sec, i.Fy, i.stiff)
    \/ check_bearing_stiffener_raises(i.sec, i.Fy, v.results.R_A_max, i.stiff, TRUE)
    \/ check_longitudinal_stiffener_raises(i.sec, i.Fy, i.stiff)
    \/ (DesignWeldRuns(i)
        /\ check_weld_for_built_up_section_raises(i.sec, v.V_design, v.M_design,
                                                  i.weld_data[1], i.Fy))

\* the dictionary used when the fatigue check is disabled
FatigueDisabled == [ratio |-> Zero, f_sr |-> Zero, F_sr |-> R(999), status |-> "N/A"]

\* lines 2978-2999: the checks of the run
DesignChecks(i, v) ==
    [M_design |-> v.M_design, V_design |-> v.V_design,
     flex |-> calc_flexural_strength(i.sec, i.Fy, RMul(i.Lb, R(1000)),
                                     check_compactness(i.sec, i.Fy)),
     shear |-> calc_shear_strength(i.sec, i.Fy, i.stiff.has_transverse,
                                   i.stiff.trans_spacing, FALSE),
     wly |-> check_web_local_yielding(i.sec, i.Fy, v.results.R_A_max, i.lb_bearing, TRUE),
     wcr |-> check_web_crippling(i.sec, i.Fy, v.results.R_A_max, i.lb_bearing, TRUE),
     fatigue |-> IF i.check_fatigue_enabled
                 THEN check_fatigue(i.sec, v.results.M_max, CraneClassC.max_cycles,
                                    i.fatigue_cat)
                 ELSE FatigueDisabled,
     trans_check |-> check_transverse_stiffener(i.sec, i.Fy, i.stiff),
     bearing_check |-> check_bearing_stiffener(i.sec, i.Fy, v.results.R_A_max, i.stiff,
                                               TRUE),
     long_check |-> check_longitudinal_stiffener(i.sec, i.Fy, i.stiff),
     weld_check |-> IF DesignWeldRuns(i)
                    THEN <<check_weld_for_built_up_section(i.sec, v.V_design, v.M_design,
                                                           i.weld_data[1], i.Fy)>>
                    ELSE <<>>]

\* lines 3009-3014: the ratios
DesignRatios(i, c) ==
    [flex_ratio |-> IF RLt(Zero, c.flex.Mn_allow) THEN RDiv(c.M_design, c.flex.Mn_allow)
                    ELSE R(999),
     shear_ratio |-> IF RLt(Zero, c.shear.Vn_allow)
                     THEN RDiv(c.V_design, c.shear.Vn_allow) ELSE R(999),
     defl_ratio |-> IF RLt(Zero, RDiv(RMul(i.beam_span, R(1000)),
                                      R(CraneClassC.defl_limit)))
                    THEN RDiv(i.delta, RDiv(RMul(i.beam_span, R(1000)),
                                            R(CraneClassC.defl_limit)))
                    ELSE Zero]

\* lines 3026-3030: checks_list of the summary tab
SummaryChecksList(i, c, r) ==
    <<r.flex_ratio, r.shear_ratio, c.wly.ratio, c.wcr.ratio, r.defl_ratio>>
    \o (IF i.check_fatigue_enabled THEN <<c.fatigue.ratio>> ELSE <<>>)
    \o (IF c.weld_check # <<>> THEN <<c.weld_check[1].ratio>> ELSE <<>>)

\* all(r <= 1.0 for r in checks_list)
AllWithinOne(list) == \A k \in 1..Len(list) : RLe(list[k], One)

\* lines 2021-2025: overall_pass of the report
OverallPass(i, c, r) ==
    /\ RLe(r.flex_ratio, One)
    /\ RLe(r.shear_ratio, One)
    /\ RLe(c.wly.ratio, One)
    /\ RLe(c.wcr.ratio, One)
    /\ RLe(r.defl_ratio, One)
    /\ (i.check_fatigue_enabled => RLe(c.fatigue.ratio, One))

\* what the run has computed when the summary tab is drawn
DesignSummary(i, c, r) ==
    [checks |-> c, ratios |-> r,
     all_ok |-> AllWithinOne(SummaryChecksList(i, c, r)),
     overall_pass |-> OverallPass(i, c, r)]

DesignFrom(i, v) ==
    DesignSummary(i, DesignChecks(i, v), DesignRatios(i, DesignChecks(i, v)))

\* the design run of main on the sidebar values chk_in
RunDesign ==
    /\ chk_name = "none"
    /\ chk_name' = "main"
    /\ IF DesignRaises(chk_in,
                       DesignValues(chk_in,
                                    run_moving_load_analysis(
                                        chk_in.beam_span, chk_in.cranes, chk_in.step_size,
                                        <<Len(chk_in.cranes)>>).results))
       THEN /\ chk_exc' = "ZeroDivisionError"
            /\ chk_out' = chk_out
       ELSE /\ chk_exc' = chk_exc
            /\ chk_out' = DesignFrom(chk_in,
                                     DesignValues(chk_in,
                                                  run_moving_load_analysis(
                                                      chk_in.beam_span, chk_in.cranes,
                                                      chk_in.step_size,
                                                      <<Len(chk_in.cranes)>>).results))
    /\ UNCHANGED <<chk_in, envVars, secVars, uiVars>>

DesignNext == RunDesign

DesignSpec == DesignInit /\ [][DesignNext]_vars

---------------------------------------------------------------------------
(* Properties of the design checks.                                        *)

\* the check called works on a zero web thickness, a zero depth or a zero Ix
\* that its formulas divide by
DegenerateCall ==
    \/ /\ chk_name \in {"check_compactness", "calc_shear_strength",
                        "check_web_local_yielding"}
       /\ chk_in.sec.tw = Zero
    \/ /\ chk_name = "check_web_crippling"
       /\ (chk_in.sec.tw = Zero \/ chk_in.sec.d = Zero)
    \/ /\ chk_name = "check_weld_for_built_up_section"
       /\ chk_in.sec.Ix = Zero

\* the ratio a returned dictionary carries: the web slenderness for the two
\* checks that classify, the demand/capacity ratio for the others
CarriedRatio ==
    IF chk_name = "check_compactness" THEN chk_out.lambda_w
    ELSE IF chk_name = "calc_shear_strength" THEN chk_out.h_tw
    ELSE chk_out.ratio

\* C9: for a section with tw = 0 or d = 0 (or Ix = 0 in the weld check), every
\* check that divides by that quantity returns a result carrying an
\* automatic-fail ratio above 1 instead of raising a numeric exception.
C9_DegenerateSectionIsGuarded ==
    DegenerateCall => (chk_exc = "none" /\ RLt(One, CarriedRatio))

\* the part of C9 the code keeps: with tw = 0 the compactness and the web local
\* yielding checks return the ratio 999
TestedDivisorsCarrySentinel ==
    (chk_name \in {"check_compactness", "check_web_local_yielding"}
        /\ chk_in.sec.tw = Zero)
        => (chk_exc = "none" /\ CarriedRatio = R(999))

\* web crippling never returns for tw = 0 or d = 0
CripplingRaisesOnZero ==
    (chk_name = "check_web_crippling" /\ DegenerateCall)
        => chk_exc = "ZeroDivisionError"

\* the checks whose dictionary carries a single demand/capacity ratio and a
\* status, and the checks whose verdict is the conjunction of several entries
SingleRatioChecks == {"check_web_local_yielding", "check_web_crippling", "check_fatigue"}
CompositeChecks == {"check_bearing_stiffener", "check_weld_for_built_up_section"}

\* the check returned a dictionary holding both a ratio and a verdict
ReportsRatioAndVerdict ==
    /\ chk_name \in SingleRatioChecks \cup CompositeChecks
    /\ chk_exc = "none"
    /\ "ratio" \in DOMAIN chk_out

\* the verdict of the returned dictionary: status 'OK' or ok = True
VerdictPasses ==
    IF chk_name \in CompositeChecks THEN chk_out.ok ELSE chk_out.status = "OK"

\* C11: every check that reports both a ratio and a pass/fail verdict passes
\* exactly when the reported ratio is <= 1.0.
C11_VerdictMatchesRatio ==
    ReportsRatioAndVerdict => (VerdictPasses <=> RLe(chk_out.ratio, One))

\* what the code keeps of C11: the three single-ratio checks pass exactly when
\* ratio <= 1.0, and a composite check that passes reports a ratio <= 1.0
SingleRatioVerdictMatches ==
    (ReportsRatioAndVerdict /\ chk_name \in SingleRatioChecks)
        => (VerdictPasses <=> RLe(chk_out.ratio, One))

CompositePassImpliesRatio ==
    (ReportsRatioAndVerdict /\ chk_name \in CompositeChecks /\ VerdictPasses)
        => RLe(chk_out.ratio, One)

\* a bearing stiffener check and a weld check that fail with a ratio <= 1.0
BearingFailsBelowUnity ==
    /\ chk_name = "check_bearing_stiffener"
    /\ ReportsRatioAndVerdict
    /\ ~chk_out.ok
    /\ RLe(chk_out.ratio, One)

WeldFailsBelowUnity ==
    /\ chk_name = "check_weld_for_built_up_section"
    /\ ReportsRatioAndVerdict
    /\ chk_out.status = "NG"
    /\ RLe(chk_out.ratio, One)

\* C12: with at_support = True a bearing length with lb/d exactly 0.2 is
\* evaluated with the first (lb/d <= 0.2) crippling formula, and with
\* at_support = False the single interior formula of coefficient 0.80 is used
\* for every lb/d.
C12_CripplingBoundary ==
    (chk_name = "check_web_crippling" /\ chk_exc = "none")
        => /\ (chk_in.at_support /\ RDiv(chk_in.lb, chk_in.sec.d) = Rat(2, 10))
                => /\ CripplingFormula(RDiv(chk_in.lb, chk_in.sec.d), TRUE)
                         = "end, lb/d <= 0.2"
                   /\ chk_out.Rn = CripplingRn("end, lb/d <= 0.2", chk_in.sec, chk_in.Fy,
                                               chk_in.lb, CripplingFlange(chk_in.sec))
           /\ ~chk_in.at_support
                => chk_out.Rn = CripplingRn("interior", chk_in.sec, chk_in.Fy,
                                            chk_in.lb, CripplingFlange(chk_in.sec))

\* an end bearing with lb/d = 0.2 was checked
C12_Witness ==
    /\ chk_name = "check_web_crippling"
    /\ chk_exc = "none"
    /\ chk_in.at_support
    /\ RDiv(chk_in.lb, chk_in.sec.d) = Rat(2, 10)
    /\ chk_out.status = "OK"

\* calc_flexural_strength returned for a section whose flange and web are both
\* Compact and whose unbraced length is at most Lp
CompactAndBraced ==
    /\ chk_name = "calc_flexural_strength"
    /\ chk_exc = "none"
    /\ check_compactness(chk_in.sec, chk_in.Fy).flange_class = "Compact"
    /\ check_compactness(chk_in.sec, chk_in.Fy).web_class = "Compact"
    /\ RLe(chk_in.Lb, chk_out.Lp)

\* C13 as stated: for a Compact flange and web and Lb <= Lp,
\* calc_flexural_strength reports limit_state == "Yielding" and Mn == Fy * Zx.
C13_CompactBracedYields ==
    CompactAndBraced
        => /\ chk_out.limit_state = "Yielding"
           /\ chk_out.Rpg_suffix = <<>>
           /\ chk_out.Mn = RMul(chk_in.Fy, chk_in.sec.Zx)

\* C13 as the code has it: the label is "Yielding (Lb <= Lp)" with no Rpg
\* suffix, and Mn is the plastic moment in kN-m, Fy * Zx / 1e6, or
\* Fy * 1.12 * Sx / 1e6 for a section whose Zx is 0; no reduction is applied.
C13_CompactBracedPlastic ==
    CompactAndBraced
        => /\ chk_out.limit_state = "Yielding (Lb <= Lp)"
           /\ chk_out.Rpg_suffix = <<>>
           /\ chk_out.Mn = chk_out.Mp
           /\ chk_out.Mn = IF RLt(Zero, chk_in.sec.Zx)
                           THEN RDiv(RMul(chk_in.Fy, chk_in.sec.Zx), R(1000000))
                           ELSE RDiv(RMul(RMul(chk_in.Fy, chk_in.sec.Sx), Rat(112, 100)),
                                     R(1000000))

\* a compact, braced section with a plastic modulus was evaluated
C13_Witness ==
    /\ CompactAndBraced
    /\ RLt(Zero, chk_in.sec.Zx)
    /\ RLt(Zero, chk_out.Mn)

\* a compact, braced section without a plastic modulus was evaluated
C13_WitnessApproximateZx ==
    /\ CompactAndBraced
    /\ chk_in.sec.Zx = Zero
    /\ RLt(Zero, chk_out.Mn)

\* the first slenderness threshold 1.10 * sqrt(kv * E / Fy) of the call
FirstShearThreshold ==
    ShearLimits(ShearWeb(chk_in.sec, chk_in.stiff.has_stiff, chk_in.stiff.stiff_spa),
                chk_in.Fy).limit1

\* calc_shear_strength returned for a web at or below the first threshold
StockyWebShear ==
    /\ chk_name = "calc_shear_strength"
    /\ chk_exc = "none"
    /\ RLe(chk_out.h_tw, FirstShearThreshold)

\* C14: for a web slenderness h/tw at or below 1.10 * sqrt(kv * E / Fy),
\* calc_shear_strength returns Cv1 == 1.0 and limit_state == "Shear Yielding"
\* for every has_stiff, stiffener spacing and use_tfa: tension field action is
\* not applied and the safety factor is the base shear factor.
C14_StockyWebYields ==
    StockyWebShear
        => /\ chk_out.Cv1 = One
           /\ chk_out.limit_state = "Shear Yielding"
           /\ chk_out.Vn = RDiv(RMul(RMul(Rat(6, 10), chk_in.Fy), chk_out.Aw), R(1000))
           /\ chk_out.Vn_allow = RDiv(chk_out.Vn, OMEGA_SHEAR)

\* a stocky web was checked with stiffeners and tension field action requested
C14_Witness ==
    /\ StockyWebShear
    /\ chk_in.stiff.has_stiff
    /\ chk_in.stiff.use_tfa
    /\ RLt(Zero, chk_out.Vn)


---------------------------------------------------------------------------
(* Properties of the analysis under a changed crane parameter.             *)

\* the crane whose impact factor is raised is one of the active cranes, the
\* raised factor exceeds its own, and both analyses returned
ImpactRaisedOnActive ==
    /\ chk_name = "run_moving_load_analysis"
    /\ chk_in.index <= Len(ActiveCranes(chk_in.cranes, chk_in.num_cranes_on_beam))
    /\ RLt(chk_in.cranes[chk_in.index].impact_v, chk_in.impact_v)
    /\ chk_out.base.exc = "none"
    /\ chk_out.varied.exc = "none"

EnvelopeFields == {"M_max", "R_A_max", "R_B_max", "R_A_min", "R_B_min"}

StrictlyRaised ==
    \A f \in EnvelopeFields : RLt(chk_out.base.results[f], chk_out.varied.results[f])

Unchanged ==
    \A f \in EnvelopeFields : chk_out.base.results[f] = chk_out.varied.results[f]

\* every wheel stands strictly inside the span at every stepped position: the
\* buffers are positive and the group fits between them
WheelsInsideSpan(L, active_cranes) ==
    /\ RLt(Zero, active_cranes[1].buffer_left)
    /\ RLt(SweepTolerance, active_cranes[Len(active_cranes)].buffer_right)
    /\ RLe(active_cranes[1].buffer_left,
           RSub(RSub(L, active_cranes[Len(active_cranes)].buffer_right),
                get_crane_group_geometry(active_cranes)[3]))

RaisedCraneLoaded == RLt(Zero, calc_wheel_loads(chk_in.cranes[chk_in.index])[1])

\* C15 as stated: raising impact_v of one active crane, all else fixed, strictly
\* increases M_max, R_A_max, R_B_max, R_A_min and R_B_min
C15_ImpactStrictlyRaises == ImpactRaisedOnActive => StrictlyRaised

\* C15, amended: with every wheel inside the span, raising impact_v of one active
\* crane strictly increases the five envelope values when that crane's wheel
\* load is positive and leaves them equal when it is zero
C15_ImpactRaisesLoadedCrane ==
    (/\ ImpactRaisedOnActive
     /\ WheelsInsideSpan(chk_in.beam_span,
                         ActiveCranes(chk_in.cranes, chk_in.num_cranes_on_beam)))
    => IF RaisedCraneLoaded THEN StrictlyRaised ELSE Unchanged

\* two loaded cranes inside the span, the second one raised
C15_Witness ==
    /\ ImpactRaisedOnActive
    /\ WheelsInsideSpan(chk_in.beam_span,
                        ActiveCranes(chk_in.cranes, chk_in.num_cranes_on_beam))
    /\ RaisedCraneLoaded
    /\ chk_in.index = 2
    /\ StrictlyRaised

\* a weightless crane raised: nothing changes
C15_WitnessWeightless ==
    /\ ImpactRaisedOnActive
    /\ ~RaisedCraneLoaded
    /\ Unchanged

\* a group longer than its travel range: a raised loaded crane lowers or keeps
\* an envelope value
C15_WitnessBeyondSpan ==
    /\ ImpactRaisedOnActive
    /\ RaisedCraneLoaded
    /\ \E f \in EnvelopeFields : RLe(chk_out.varied.results[f], chk_out.base.results[f])


\* the analysis returned for one active two-wheel crane with equal buffers
SymmetricSingleCrane ==
    /\ pc = "done"
    /\ Len(ActiveCranes(cranes, num_cranes_on_beam)) = 1
    /\ ActiveCranes(cranes, num_cranes_on_beam)[1].num_wheels = 2
    /\ ActiveCranes(cranes, num_cranes_on_beam)[1].buffer_left
         = ActiveCranes(cranes, num_cranes_on_beam)[1].buffer_right

\* C16 as stated: one two-wheel crane with equal wheel loads and equal buffers
\* gives R_A_max = R_B_max, for every step size
C16_SymmetricReactions == SymmetricSingleCrane => results.R_A_max = results.R_B_max

\* with a step that lands on the far end of the travel range the two maxima agree
SymmetricAtWholeSteps ==
    (SymmetricSingleCrane /\ step_size = One) => results.R_A_max = results.R_B_max

\* the step 3/2 stops short of the far end: R_B_max stays below R_A_max
SymmetricMissedEnd ==
    /\ SymmetricSingleCrane
    /\ step_size = Rat(3, 2)
    /\ RLt(results.R_B_max, results.R_A_max)


\* the analysis returned load cases for wheels that all carry a positive load,
\* and the group fits its travel range: end_pos was not clamped
PositiveLoadsFeasibleRange ==
    /\ pc = "done"
    /\ all_results # <<>>
    /\ \A k \in 1..Len(wheel_loads) : RLt(Zero, wheel_loads[k])
    /\ RLe(ActiveCranes(cranes, num_cranes_on_beam)[1].buffer_left,
           RSub(RSub(beam_span,
                     ActiveCranes(cranes, num_cranes_on_beam)
                         [Len(ActiveCranes(cranes, num_cranes_on_beam))].buffer_right),
                get_crane_group_geometry(ActiveCranes(cranes, num_cranes_on_beam))[3]))

\* sum over the wheels of P_i * (L - x_i) / L with x_i = buffer_left + offset_i
SuperposedReactionA(L, buffer_left, offsets, loads) ==
    RSum([k \in 1..Len(offsets) |->
             RDiv(RMul(loads[k], RSub(L, RAdd(buffer_left, offsets[k]))), L)])

\* C17: for positive wheel loads and a feasible travel range R_A_max is the
\* reaction of the first stepped position, R_A_max_position is buffer_left of
\* the first active crane and R_A_max is the closed-form superposition there
C17_MaxReactionAtStart ==
    PositiveLoadsFeasibleRange
    => /\ results.R_A_max = all_results[1].R_A
       /\ results.R_A_max_position
            = ActiveCranes(cranes, num_cranes_on_beam)[1].buffer_left
       /\ results.R_A_max
            = SuperposedReactionA(beam_span,
                                  ActiveCranes(cranes, num_cranes_on_beam)[1].buffer_left,
                                  rel_positions, wheel_loads)

\* a sweep of several positions of a four-wheel crane: the later positions carry
\* a smaller R_A
C17_Witness ==
    /\ PositiveLoadsFeasibleRange
    /\ Len(all_results) >= 3
    /\ Len(wheel_loads) = 4
    /\ results.R_A_max_position = ActiveCranes(cranes, num_cranes_on_beam)[1].buffer_left
    /\ RLt(all_results[Len(all_results)].R_A, results.R_A_max)


C18_WitnessCranes ==
    /\ chk_name = "run_moving_load_analysis"
    /\ chk_exc = "none"
    /\ chk_in.analysis.cranes = <<CraneFourExplicit, CraneTwoWheel>>
    /\ RLt(Zero, chk_out.R_A_max)

\* the forces of a crane without direct-override loads were computed for two
\* bridge weights
BridgeWeightVaried ==
    /\ chk_name = "crane forces"
    /\ chk_exc = "none"
    /\ ~chk_in.cranes[chk_in.index].use_direct_input
    /\ chk_in.cranes[chk_in.index].bridge_weight # chk_in.bridge_weight

\* C19 as stated: two cranes that differ only in bridge_weight (no direct
\* loads) have the same lateral load per wheel and the same longitudinal force
C19_BridgeWeightIrrelevant ==
    BridgeWeightVaried
    => /\ chk_out.base.lateral = chk_out.varied.lateral
       /\ chk_out.base.longitudinal = chk_out.varied.longitudinal

\* the lateral load per wheel does not depend on the bridge weight
LateralIgnoresBridgeWeight ==
    BridgeWeightVaried => chk_out.base.lateral = chk_out.varied.lateral

\* the longitudinal force grows with the bridge weight
LongitudinalFollowsBridgeWeight ==
    /\ BridgeWeightVaried
    /\ RLt(chk_out.base.longitudinal, chk_out.varied.longitudinal)

---------------------------------------------------------------------------
(* Properties of the RUN DESIGN gate.                                      *)

\* the last rerun executed the envelope analysis and the design checks
DesignExecuted ==
    /\ ui_executed # <<>>
    /\ ui_executed[1] = "run_moving_load_analysis"

\* C20 as stated: a rerun in which RUN DESIGN is not clicked executes neither
\* the analysis nor the checks, only the section preview
C20_NoClickNoDesign ==
    (ui_reruns > 0 /\ ~ui_run_design) => ui_executed = PreviewCalls

\* C20, amended: a rerun shows only the section preview exactly when the button
\* is not clicked in it and was not clicked in any earlier rerun of the session
\* (the rerun before it, if any, showed the preview too); from the first click
\* on, every rerun executes the analysis and the checks
C20_GateLatches ==
    [][ /\ (ui_executed' = PreviewCalls)
            <=> (~ui_run_design' /\ (ui_reruns = 0 \/ ui_executed = PreviewCalls))
        /\ (ui_executed' # PreviewCalls) => ui_executed' = DesignCalls(ui_widgets')
      ]_uiVars

\* a rerun without a click, after an earlier click: the design ran again
C20_Witness ==
    /\ ui_reruns >= 2
    /\ ~ui_run_design
    /\ DesignExecuted
    /\ ui_session.design_completed
    /\ RLt(Zero, ui_results.M_max)

\* a second rerun with no click so far: the preview only
C20_WitnessPreview ==
    /\ ui_reruns >= 2
    /\ ~ui_run_design
    /\ ui_executed = PreviewCalls
    /\ ~ui_session.design_completed

---------------------------------------------------------------------------
(* Properties of the stepping, of one load case and of the wheel offsets.  *)

\* the analysis has passed the travel limits
TravelLimitsSet == pc \in {"sweep", "done"} /\ rel_positions # <<>>

\* start = buffer_left of the first active crane and
\* end = max(start, L - buffer_right of the last active crane - group length)
TravelLimitsAsStated ==
    TravelLimitsSet
    => /\ start_pos = ActiveCranes(cranes, num_cranes_on_beam)[1].buffer_left
       /\ end_pos = RMax(start_pos,
                         RSub(RSub(beam_span,
                                   ActiveCranes(cranes, num_cranes_on_beam)
                                     [Len(ActiveCranes(cranes, num_cranes_on_beam))]
                                     .buffer_right),
                              get_crane_group_geometry(
                                  ActiveCranes(cranes, num_cranes_on_beam))[3]))

\* start is the first position recorded and consecutive positions differ by
\* step_size
SteppedFromStart ==
    /\ all_results # <<>> => all_results[1].step_position = start_pos
    /\ \A i \in 1..(Len(all_results) - 1) :
          RSub(all_results[i + 1].step_position, all_results[i].step_position)
            = step_size

\* C21 as stated: every position evaluated lies in [start, end], start is
\* evaluated, the positions are strictly increasing in all_results and
\* consecutive positions differ by step_size
C21_PositionsWithinTravelRange ==
    /\ TravelLimitsAsStated
    /\ SteppedFromStart
    /\ pc = "done" /\ rel_positions # <<>> => all_results # <<>>
    /\ \A i \in 1..Len(all_results) :
          /\ RLe(start_pos, all_results[i].step_position)
          /\ RLe(all_results[i].step_position, end_pos)
    /\ \A i \in 1..(Len(all_results) - 1) :
          RLt(all_results[i].step_position, all_results[i + 1].step_position)

\* C21, amended: start is evaluated first, consecutive positions differ by
\* step_size, and every position evaluated is at most end + 0.001, the
\* tolerance of the loop bound: a position may lie above end by up to 0.001.
\* With step_size > 0 the positions are strictly increasing from start, and the
\* sweep ends only when the next position exceeds end + 0.001
C21_PositionsWithinTolerance ==
    /\ TravelLimitsAsStated
    /\ SteppedFromStart
    /\ pc = "done" /\ rel_positions # <<>> => all_results # <<>>
    /\ \A i \in 1..Len(all_results) :
          RLe(all_results[i].step_position, RAdd(end_pos, SweepTolerance))
    /\ RLt(Zero, step_size)
       => /\ \A i \in 1..Len(all_results) :
               RLe(start_pos, all_results[i].step_position)
          /\ \A i \in 1..(Len(all_results) - 1) :
               RLt(all_results[i].step_position, all_results[i + 1].step_position)
          /\ pc = "done" /\ all_results # <<>>
             => RLt(RAdd(end_pos, SweepTolerance),
                    RAdd(all_results[Len(all_results)].step_position, step_size))

\* a returned sweep whose last position lies above end, within the tolerance
C21_Witness ==
    /\ pc = "done"
    /\ Len(all_results) >= 2
    /\ RLt(end_pos, all_results[Len(all_results)].step_position)
    /\ RLe(all_results[Len(all_results)].step_position, RAdd(end_pos, SweepTolerance))

\* M(x) = R_A * x - sum over the wheels j with x_j < x of P_j * (x - x_j)
RECURSIVE MomentLeftOf(_, _, _)
MomentLeftOf(x, r, j) ==
    IF j = 0 THEN RMul(r.R_A, x)
    ELSE RSub(MomentLeftOf(x, r, j - 1),
              IF RLt(r.wheel_positions[j], x)
              THEN RMul(r.wheel_loads[j], RSub(x, r.wheel_positions[j])) ELSE Zero)

SectionMoment(x, r) == MomentLeftOf(x, r, Len(r.wheel_positions))

\* the sections of one load case: the wheel positions in wheel order, then L/2
SectionsOf(r) == Append(r.wheel_positions, RDiv(beam_span, R(2)))

\* C22: in every load case M_max is the largest of the moments M(x) at the wheel
\* positions and at midspan, M_max_location is a section where M(x) is that
\* value, and moments_at_wheels holds the values of the wheels in wheel order
C22_MaxMomentOverSections ==
    \A i \in 1..Len(all_results) :
        /\ \A k \in 1..Len(SectionsOf(all_results[i])) :
              RLe(SectionMoment(SectionsOf(all_results[i])[k], all_results[i]),
                  all_results[i].M_max)
        /\ \E k \in 1..Len(SectionsOf(all_results[i])) :
              /\ SectionsOf(all_results[i])[k] = all_results[i].M_max_location
              /\ SectionMoment(SectionsOf(all_results[i])[k], all_results[i])
                   = all_results[i].M_max
        /\ Len(all_results[i].moments_at_wheels) = Len(all_results[i].wheel_positions)
        /\ \A k \in 1..Len(all_results[i].wheel_positions) :
              all_results[i].moments_at_wheels[k]
                = SectionMoment(all_results[i].wheel_positions[k], all_results[i])

\* a load case of several wheels whose largest moment is at midspan, above every
\* wheel moment, and one whose largest moment is under a wheel
C22_Witness ==
    /\ \E i \in 1..Len(all_results) :
          /\ Len(all_results[i].wheel_positions) >= 2
          /\ all_results[i].M_max_location = RDiv(beam_span, R(2))
          /\ \A k \in 1..Len(all_results[i].moments_at_wheels) :
                RLt(all_results[i].moments_at_wheels[k], all_results[i].M_max)
    /\ \E i \in 1..Len(all_results) :
          /\ all_results[i].M_max_location # RDiv(beam_span, R(2))
          /\ RLt(Zero, all_results[i].M_max)

---------------------------------------------------------------------------
(* Properties of the common finishing step and of repeated derivation.     *)

\* the Section calc_props was last called on: the Section before the operation
\* with the cap fields of the operation
LastArgument ==
    [sec_prev EXCEPT !.has_cap = sec.has_cap, !.cap_A = sec.cap_A,
                     !.cap_Ix = sec.cap_Ix, !.cap_Iy = sec.cap_Iy,
                     !.cap_d = sec.cap_d, !.cap_cy = sec.cap_cy]

\* the last calc_props call returned
Returned == sec_ops # <<>> /\ sec_exc = "none"

\* the fields of a Section in `fields` that are non-zero before the common
\* step keep their value through it
KeptByCommonStep(fields) ==
    \A f \in fields : BeforeCommon(LastArgument)[f] # Zero
                        => sec[f] = BeforeCommon(LastArgument)[f]

\* C23 as stated: the common step changes none of rx, ry, Zx, J, Cw, rts and
\* mass that is non-zero when the step starts
C23_CommonStepKeepsDerived ==
    Returned => KeptByCommonStep({"rx", "ry", "Zx", "J", "Cw", "rts", "mass"})

\* the fields the step guards with a test for zero are kept
GuardedFieldsKept == Returned => KeptByCommonStep({"Zx", "J", "Cw", "rts", "mass"})

\* rx is non-zero when the step starts and the step replaces it
RadiusOverwritten ==
    /\ Returned
    /\ BeforeCommon(LastArgument).rx # Zero
    /\ sec.rx # BeforeCommon(LastArgument).rx

\* the Section was derived without a cap, then the cap was attached and
\* calc_props called again, as the input surface does; neither call raised
DerivedThenCapped ==
    /\ sec_ops = <<"calc_props", "add_cap">>
    /\ sec_exc = "none"

\* a fresh Section with the final governing inputs: the construction s0 with the
\* cap fields of the Section under design
FreshWithCap(s0) ==
    [s0 EXCEPT !.has_cap = sec.has_cap, !.cap_A = sec.cap_A, !.cap_Ix = sec.cap_Ix,
               !.cap_Iy = sec.cap_Iy, !.cap_d = sec.cap_d, !.cap_cy = sec.cap_cy]

\* the constructions without a cap whose first derivation is the Section before
\* the cap was attached
ConstructionsOf(derived) ==
    {s0 \in BareSections : ~calc_props_raises(s0) /\ calc_props(s0) = derived}

\* C24: after deriving without a cap, attaching the cap and deriving again, the
\* derived fields equal those of one calc_props call on a fresh Section with
\* the same final inputs
C24_RederivedEqualsFresh ==
    DerivedThenCapped
    => \A s0 \in ConstructionsOf(sec_prev) :
          ~calc_props_raises(FreshWithCap(s0))
          => DerivedFields(sec) = DerivedFields(calc_props(FreshWithCap(s0)))

\* a plate girder keeps the mass and the Zx of its first derivation
StaleMassAfterCap ==
    /\ DerivedThenCapped
    /\ sec.sec_type = "built_up"
    /\ \E s0 \in ConstructionsOf(sec_prev) :
          /\ ~calc_props_raises(FreshWithCap(s0))
          /\ sec.mass = sec_prev.mass
          /\ RLt(sec.mass, calc_props(FreshWithCap(s0)).mass)
          /\ sec.A = calc_props(FreshWithCap(s0)).A

\* a rolled shape keeps the Cw of its first derivation
StaleWarpingAfterCap ==
    /\ DerivedThenCapped
    /\ sec.sec_type = "hot_rolled"
    /\ \E s0 \in ConstructionsOf(sec_prev) :
          /\ ~calc_props_raises(FreshWithCap(s0))
          /\ sec.Cw = sec_prev.Cw
          /\ sec.Cw # calc_props(FreshWithCap(s0)).Cw

---------------------------------------------------------------------------
(* Properties of the wheel offsets of one crane.                           *)

\* the three explicit spacings of a four-wheel crane are all positive
ExplicitSpacings(c) ==
    /\ c.num_wheels = 4
    /\ RLt(Zero, c.wheel_spacing_12)
    /\ RLt(Zero, c.wheel_spacing_23)
    /\ RLt(Zero, c.wheel_spacing_34)

NonDecreasing(p) == \A i \in 1..(Len(p) - 1) : RLe(p[i], p[i + 1])

StrictlyIncreasing(p) == \A i \in 1..(Len(p) - 1) : RLt(p[i], p[i + 1])

\* wheel i stands (i - 1) of the n - 1 equal gaps of wheel_base from the first
EvenlyDivided(p, c) ==
    /\ \A i \in 1..Len(p) :
          RMul(p[i], R(c.num_wheels - 1)) = RMul(R(i - 1), c.wheel_base)
    /\ p[Len(p)] = c.wheel_base

\* the running sums of the explicit spacings
CumulativeSpacings(p, c) ==
    /\ p[2] = c.wheel_spacing_12
    /\ RSub(p[3], p[2]) = c.wheel_spacing_23
    /\ RSub(p[4], p[3]) = c.wheel_spacing_34

C25_WitnessExplicit ==
    /\ chk_name = "get_total_wheel_base"
    /\ ExplicitSpacings(chk_in)
    /\ chk_in.wheel_base = R(3)
    /\ chk_out.positions = <<Zero, Rat(3, 10), Rat(13, 10), Rat(16, 10)>>
    /\ chk_out.total = Rat(16, 10)

\* five wheels: the generic equal spacing
C25_WitnessGeneric ==
    /\ chk_name = "get_wheel_positions_relative"
    /\ chk_in.num_wheels = 5
    /\ chk_in.wheel_base = R(3)
    /\ chk_out.positions[2] = Rat(3, 4)
    /\ chk_out.positions[5] = R(3)

---------------------------------------------------------------------------
(* Properties of the nominal flexural strength.                            *)

\* calc_flexural_strength returned
FlexReturned ==
    /\ chk_name = "calc_flexural_strength"
    /\ chk_exc = "none"

\* the cmp dictionary of the call
FlexCmp == check_compactness(chk_in.sec, chk_in.Fy)

\* the moment of the lateral-torsional regime Lb selects, from the returned Mp,
\* My, Lp and Lr
RegimeMoment ==
    IF RLe(chk_in.Lb, chk_out.Lp) THEN chk_out.Mp
    ELSE IF RLe(chk_in.Lb, chk_out.Lr)
    THEN FlexInterpolate(chk_out.Mp, chk_out.My, chk_in.Lb, chk_out.Lp, chk_out.Lr)
    ELSE FlRat(FlDiv(FlMul(FlexFcr(chk_in.sec, chk_in.Fy, chk_in.Lb), FlOf(chk_in.sec.Sx)),
                     FlOf(R(1000000))))

\* the candidates: Mp, the regime moment, and for a Noncompact flange Mn_flb
FlexCandidates ==
    {chk_out.Mp, RegimeMoment}
    \cup (IF FlexCmp.flange_class = "Noncompact"
          THEN {FlexFLB(FlexCmp, chk_out.Mp, chk_out.My)} ELSE {})

\* the smallest candidate
Governing == CHOOSE m \in FlexCandidates : \A o \in FlexCandidates : RLe(m, o)

\* C26: Mn of calc_flexural_strength is the most restrictive of its
\* candidates: it exceeds neither Mp, nor the moment of the regime Lb selects,
\* nor the flange-local-buckling moment of a Noncompact flange; for a Slender
\* web it is that moment times a factor Rpg in [0.5, 1.0], and no factor is
\* applied otherwise
C26_MostRestrictiveMoment ==
    FlexReturned
    => /\ \A m \in FlexCandidates : RLe(chk_out.Mn, m)
       /\ IF FlexCmp.web_class = "Slender"
          THEN /\ chk_out.Mn = RMul(Governing, FlexRpg(chk_in.sec, chk_in.Fy))
               /\ RLe(Rat(1, 2), FlexRpg(chk_in.sec, chk_in.Fy))
               /\ RLe(FlexRpg(chk_in.sec, chk_in.Fy), One)
               /\ chk_out.Rpg_suffix # <<>>
          ELSE /\ chk_out.Mn = Governing
               /\ chk_out.Rpg_suffix = <<>>

\* flange local buckling governed a Noncompact flange
C26_Witness ==
    /\ FlexReturned
    /\ FlexCmp.flange_class = "Noncompact"
    /\ chk_out.limit_state = "Flange Local Buckling"
    /\ RLt(chk_out.Mn, chk_out.Mp)
    /\ RLt(chk_out.Mn, RegimeMoment)

\* a Slender web reduced the moment by a factor strictly inside (0.5, 1.0)
C26_WitnessSlenderWeb ==
    /\ FlexReturned
    /\ FlexCmp.web_class = "Slender"
    /\ RLt(Rat(1, 2), FlexRpg(chk_in.sec, chk_in.Fy))
    /\ RLt(FlexRpg(chk_in.sec, chk_in.Fy), One)
    /\ RLt(chk_out.Mn, Governing)

\* the inelastic interpolation governed
C26_WitnessInelastic ==
    /\ FlexReturned
    /\ chk_out.limit_state = "Inelastic LTB"
    /\ RLt(chk_out.Mn, chk_out.Mp)

\* the elastic critical stress governed
C26_WitnessElastic ==
    /\ FlexReturned
    /\ chk_out.limit_state = "Elastic LTB"
    /\ RLt(chk_out.Mn, chk_out.Mp)

\* a Noncompact flange whose lateral-torsional moment is below Mn_flb
C26_WitnessFlangeNotGoverning ==
    /\ FlexReturned
    /\ FlexCmp.flange_class = "Noncompact"
    /\ chk_out.limit_state # "Flange Local Buckling"
    /\ RLt(chk_out.Mn, FlexFLB(FlexCmp, chk_out.Mp, chk_out.My))

---------------------------------------------------------------------------
(* Properties of tension field action in the shear strength.               *)

\* calc_shear_strength returned
ShearReturned ==
    /\ chk_name = "calc_shear_strength"
    /\ chk_exc = "none"

\* hw of the call: sec.hw if sec.hw > 0 else sec.d - 2 * sec.tf
ShearDepth ==
    IF RLt(Zero, chk_in.sec.hw) THEN chk_in.sec.hw
    ELSE RSub(chk_in.sec.d, RMul(R(2), chk_in.sec.tf))

\* the first threshold 1.10 * sqrt(kv * E / Fy) from the returned kv
ShearLimit1 ==
    RMul(Rat(110, 100), RSqrt(RDiv(RMul(chk_out.kv, R(E_STEEL)), chk_in.Fy)))

ShearLimit2 ==
    RMul(Rat(137, 100), RSqrt(RDiv(RMul(chk_out.kv, R(E_STEEL)), chk_in.Fy)))

\* the baseline: 0.6 * Fy * Aw * Cv1 / 1000 and the label of the regime
BaselineVn ==
    RDiv(RMul(RMul(RMul(Rat(6, 10), chk_in.Fy), chk_out.Aw), chk_out.Cv1), R(1000))

BaselineLabel ==
    IF RLe(chk_out.h_tw, ShearLimit1) THEN "Shear Yielding"
    ELSE IF RLe(chk_out.h_tw, ShearLimit2) THEN "Inelastic Buckling"
    ELSE "Elastic Buckling"

\* use_tfa and has_stiff are set, the spacing is positive, Cv1 < 1.0 and a/h
\* lies in [0.5, 3]
TensionFieldApplies ==
    /\ chk_in.stiff.use_tfa
    /\ chk_in.stiff.has_stiff
    /\ RLt(Zero, chk_in.stiff.stiff_spa)
    /\ RLt(chk_out.Cv1, One)
    /\ RLe(Rat(1, 2), RDiv(chk_in.stiff.stiff_spa, ShearDepth))
    /\ RLe(RDiv(chk_in.stiff.stiff_spa, ShearDepth), R(3))

\* 0.6 * Fy * Aw * (Cv2 + (1 - Cv2) / (1.15 * sqrt(1 + (a/h)**2))) / 1000
TensionFieldVn ==
    LET Cv2 == IF RLt(ShearLimit1, chk_out.h_tw) THEN RDiv(ShearLimit1, chk_out.h_tw)
               ELSE One
    IN  RDiv(RMul(RMul(RMul(Rat(6, 10), chk_in.Fy), chk_out.Aw),
                  RAdd(Cv2, RDiv(RSub(One, Cv2),
                                 RMul(Rat(115, 100),
                                      RSqrt(RAdd(One, RSq(RDiv(chk_in.stiff.stiff_spa,
                                                               ShearDepth)))))))),
             R(1000))

\* C27: calc_shear_strength reports "Tension Field Action" and divides by
\* 1.67 exactly when use_tfa and has_stiff are set, the spacing is positive,
\* Cv1 < 1.0, a/h lies in [0.5, 3] and the tension-field strength exceeds the
\* baseline; in every other case it returns the baseline Vn, the label of the
\* baseline regime and Vn / 1.50
C27_TensionFieldExactlyWhen ==
    ShearReturned
    => IF TensionFieldApplies /\ RLt(BaselineVn, TensionFieldVn)
       THEN /\ chk_out.limit_state = "Tension Field Action"
            /\ chk_out.Vn = TensionFieldVn
            /\ chk_out.Vn_allow = RDiv(chk_out.Vn, Rat(167, 100))
       ELSE /\ chk_out.limit_state = BaselineLabel
            /\ chk_out.Vn = BaselineVn
            /\ chk_out.Vn_allow = RDiv(chk_out.Vn, Rat(150, 100))

\* tension field action was applied
C27_Witness ==
    /\ ShearReturned
    /\ TensionFieldApplies
    /\ chk_out.limit_state = "Tension Field Action"
    /\ RLt(BaselineVn, chk_out.Vn)

\* tension field action was asked for on a buckling web whose a/h is above 3
C27_WitnessWidePanel ==
    /\ ShearReturned
    /\ chk_in.stiff.use_tfa /\ chk_in.stiff.has_stiff
    /\ RLt(chk_out.Cv1, One)
    /\ RLt(Zero, chk_in.stiff.stiff_spa)
    /\ RLt(R(3), RDiv(chk_in.stiff.stiff_spa, ShearDepth))
    /\ chk_out.limit_state = "Elastic Buckling"

\* and on one whose a/h is below 0.5
C27_WitnessNarrowPanel ==
    /\ ShearReturned
    /\ chk_in.stiff.use_tfa /\ chk_in.stiff.has_stiff
    /\ RLt(chk_out.Cv1, One)
    /\ RLt(Zero, chk_in.stiff.stiff_spa)
    /\ RLt(RDiv(chk_in.stiff.stiff_spa, ShearDepth), Rat(1, 2))
    /\ chk_out.limit_state # "Tension Field Action"

\* and on a web that yields in shear
C27_WitnessStocky ==
    /\ ShearReturned
    /\ chk_in.stiff.use_tfa /\ chk_in.stiff.has_stiff
    /\ RLt(Zero, chk_in.stiff.stiff_spa)
    /\ chk_out.Cv1 = One
    /\ chk_out.limit_state = "Shear Yielding"

\* both calls of calc_shear_strength returned
ShearTwiceReturned ==
    /\ chk_name = "calc_shear_strength twice"
    /\ chk_exc = "none"

\* C29: the Vn_allow returned with use_tfa = True is at least the Vn_allow
\* returned with use_tfa = False, all other arguments equal
C29_TensionFieldNeverLowers ==
    ShearTwiceReturned => RLe(chk_out.base.Vn_allow, chk_out.varied.Vn_allow)

\* the nominal strength never falls
TensionFieldRaisesNominal ==
    ShearTwiceReturned => RLe(chk_out.base.Vn, chk_out.varied.Vn)

\* tension field action raised the nominal strength by less than 1.67 / 1.50
\* and the allowable strength fell
TensionFieldLowersAllowable ==
    /\ ShearTwiceReturned
    /\ chk_out.varied.limit_state = "Tension Field Action"
    /\ RLt(chk_out.base.Vn, chk_out.varied.Vn)
    /\ RLt(chk_out.varied.Vn_allow, chk_out.base.Vn_allow)

\* tension field action raised the allowable strength
TensionFieldRaisesAllowable ==
    /\ ShearTwiceReturned
    /\ chk_out.varied.limit_state = "Tension Field Action"
    /\ RLt(chk_out.base.Vn_allow, chk_out.varied.Vn_allow)

---------------------------------------------------------------------------
(* Properties of the intermittent weld checks.                             *)

\* check_weld_for_built_up_section returned
WeldReturned ==
    /\ chk_name = "check_weld_for_built_up_section"
    /\ chk_exc = "none"

\* the names of the checks in results['checks']
ChecksPerformed == {chk_out.checks[i].name : i \in 1..Len(chk_out.checks)}

IntermittentNames == {"Intermittent Weld Spacing", "Minimum Intermittent Weld Length"}

\* spacing <= min(24 * tw, 305) and length >= max(4 * weld_size, 38)
IntermittentLimitsMet ==
    /\ RLe(chk_in.weld_data.intermittent_spacing,
           RMin(RMul(R(24), chk_in.sec.tw), R(305)))
    /\ RLe(RMax(RMul(R(4), chk_in.weld_data.weld_size), R(38)),
           chk_in.weld_data.intermittent_length)

\* both checks are in the list and the verdict respects them; or neither is
IntermittentChecked ==
    /\ \E i \in 1..Len(chk_out.checks) :
          /\ chk_out.checks[i].name = "Intermittent Weld Spacing"
          /\ chk_out.checks[i].ok
             <=> RLe(chk_in.weld_data.intermittent_spacing,
                     RMin(RMul(R(24), chk_in.sec.tw), R(305)))
    /\ \E i \in 1..Len(chk_out.checks) :
          /\ chk_out.checks[i].name = "Minimum Intermittent Weld Length"
          /\ chk_out.checks[i].ok
             <=> RLe(RMax(RMul(R(4), chk_in.weld_data.weld_size), R(38)),
                     chk_in.weld_data.intermittent_length)
    /\ chk_out.ok <=> \A i \in 1..Len(chk_out.checks) : chk_out.checks[i].ok
    /\ chk_out.ok => IntermittentLimitsMet

IntermittentAbsent == IntermittentNames \cap ChecksPerformed = {}

\* C28: for every intermittent weld (is_continuous = False) the maximum
\* spacing check and the minimum segment length check are both performed and
\* enter the ok verdict; for a continuous weld neither is present
C28_IntermittentWeldChecked ==
    WeldReturned
    => IF chk_in.weld_data.is_continuous THEN IntermittentAbsent
       ELSE IntermittentChecked

\* what the code does: the two checks are performed for an intermittent weld
\* whose intermittent_spacing is positive, and for no other weld
IntermittentWithSpacingChecked ==
    WeldReturned
    => IF ~chk_in.weld_data.is_continuous
          /\ RLt(Zero, chk_in.weld_data.intermittent_spacing)
       THEN IntermittentChecked
       ELSE IntermittentAbsent

\* an intermittent weld with no spacing and no segment length passed without
\* either check
IntermittentUnchecked ==
    /\ WeldReturned
    /\ ~chk_in.weld_data.is_continuous
    /\ chk_in.weld_data.intermittent_spacing = Zero
    /\ chk_in.weld_data.intermittent_length = Zero
    /\ IntermittentAbsent
    /\ chk_out.ok

\* an intermittent weld failed on its spacing alone
IntermittentSpacingFails ==
    /\ WeldReturned
    /\ ~chk_in.weld_data.is_continuous
    /\ IntermittentNames \subseteq ChecksPerformed
    /\ ~chk_out.ok
    /\ \A i \in 1..Len(chk_out.checks) :
          ~chk_out.checks[i].ok <=> chk_out.checks[i].name = "Intermittent Weld Spacing"

---------------------------------------------------------------------------
(* Properties of the verdict of a design run.                              *)

\* the design run reached the summary
DesignReturned ==
    /\ chk_name = "main"
    /\ chk_exc = "none"

\* the strength, deflection and fatigue checks of the run passed
RatioChecksPass ==
    /\ RLe(chk_out.ratios.flex_ratio, One)
    /\ RLe(chk_out.ratios.shear_ratio, One)
    /\ RLe(chk_out.checks.wly.ratio, One)
    /\ RLe(chk_out.checks.wcr.ratio, One)
    /\ RLe(chk_out.ratios.defl_ratio, One)
    /\ (chk_in.check_fatigue_enabled => RLe(chk_out.checks.fatigue.ratio, One))

\* the weld check, when present, has ok = True
WeldCheckPasses == chk_out.checks.weld_check # <<>> => chk_out.checks.weld_check[1].ok

\* every enabled stiffener check has ok = True
StiffenerChecksPass ==
    /\ (chk_in.stiff.has_transverse => chk_out.checks.trans_check.ok)
    /\ (chk_in.stiff.has_bearing => chk_out.checks.bearing_check.ok)
    /\ (chk_in.stiff.has_longitudinal => chk_out.checks.long_check.ok)

\* C30: "ALL CHECKS PASS" is reported only if every check performed in the
\* run passed: flexure, shear, web local yielding, web crippling, deflection,
\* fatigue when enabled, the weld check when present (its ok flag) and every
\* enabled stiffener check (its ok flag)
C30_VerdictOnlyIfAllPass ==
    (DesignReturned /\ chk_out.all_ok)
    => (RatioChecksPass /\ WeldCheckPasses /\ StiffenerChecksPass)

\* the part the code keeps: the verdict of the summary requires the ratios of
\* flexure, shear, web local yielding, web crippling, deflection, enabled
\* fatigue and the ratio of a present weld check to be at most 1
VerdictRequiresRatios ==
    (DesignReturned /\ chk_out.all_ok)
    => /\ RatioChecksPass
       /\ chk_out.checks.weld_check # <<>>
          => RLe(chk_out.checks.weld_check[1].ratio, One)

\* ALL CHECKS PASS was shown over a bearing stiffener check that failed
PassShownOverFailedStiffener ==
    /\ DesignReturned
    /\ chk_out.all_ok
    /\ chk_in.stiff.has_bearing
    /\ ~chk_out.checks.bearing_check.ok

\* and over a longitudinal stiffener out of position
PassShownOverFailedLongitudinal ==
    /\ DesignReturned
    /\ chk_out.all_ok
    /\ chk_in.stiff.has_longitudinal
    /\ ~chk_out.checks.long_check.ok

\* and over a weld check whose ok flag is False
PassShownOverFailedWeld ==
    /\ DesignReturned
    /\ chk_out.all_ok
    /\ chk_out.checks.weld_check # <<>>
    /\ ~chk_out.checks.weld_check[1].ok
    /\ StiffenerChecksPass

\* the report states ALL CHECKS PASSED over a failed stiffener check as well
ReportPassesOverFailedStiffener ==
    /\ DesignReturned
    /\ chk_out.overall_pass
    /\ ~StiffenerChecksPass

\* a run in which every check passed and the verdict was shown
PassShownRightly ==
    /\ DesignReturned
    /\ chk_out.all_ok
    /\ chk_in.stiff.has_bearing
    /\ RatioChecksPass /\ WeldCheckPasses /\ StiffenerChecksPass

\* a run whose flexure ratio is above 1: SOME CHECKS FAIL
FailShown ==
    /\ DesignReturned
    /\ ~chk_out.all_ok
    /\ RLt(One, chk_out.ratios.flex_ratio)

====
